---- MODULE Spec2Model ----
(***************************************************************************)
(* Browser State Extraction & Action Execution Engine (web-agent).         *)
(*                                                                         *)
(* The module models                                                       *)
(*   - the multi-tab PlaywrightService (src/app/lib/browser/dom-service.ts *)
(*     lines 887-1277): initialize(), the context 'page' handler, the page *)
(*     'close' handler, goto, clickBySelector, the capture primitives;     *)
(*   - the index-based ActionExecutor (src/app/lib/actions/executor.ts     *)
(*     lines 6-138) and the DOMService operations it calls.                *)
(*                                                                         *)
(* Every await of the source on browser I/O is a separate step, so that    *)
(* tab events (a tab opens, reaches DOM-content-loaded, closes) and page   *)
(* mutations interleave with the program exactly where Node's event loop   *)
(* lets them.  Code between two awaits is one atomic step.                 *)
(*                                                                         *)
(* Two specifications share the variables:                                 *)
(*   SpecSession  initialize() callers and tab events;                     *)
(*   SpecExec     ActionExecutor.execute on an initialized session.        *)
(***************************************************************************)
EXTENDS Integers, Sequences, FiniteSets, TLC

\* ------------------------------------------------------------------ bounds
MaxTabs == 3
MaxBrowsers == 2
MaxElems == 2
MaxPopups == 1

Tabs == 1..MaxTabs
Browsers == 1..MaxBrowsers
\* two invocations of initialize(), which may overlap
Callers == {1, 2}
Elements == 1..MaxElems

VARIABLES
  \* PlaywrightService fields (dom-service.ts 888-891); 0 models null
  browser, context, page, pages,
  \* the browser side
  launched,      \* number of browsers chromium.launch has started
  newPages,      \* number of tabs context.newPage() has opened for initialize()
  ctxHandler,    \* ctxHandler[b]: context.on('page', ...) is registered on b's context
  tabCtx,        \* tabCtx[t]: the context open tab t lives in (0: none)
  tabState,      \* "none" | "open" | "closed"
  handlerWait,   \* the 'page' handler for t is suspended in waitForLoadState
  closeHandler,  \* page.on('close', ...) is registered on t
  \* initialize() invocations: position, the browser and tab the call holds,
  \* and the value of this.page when the call returned
  initPc, initBrowser, initTab, initRetPage,
  \* the pages: per tab its URL, its interactive elements in capture order,
  \* and the data-element-index stamps the last capture left (stamp[t][k] is
  \* the element stamped k)
  url, dom, stamp,
  popupReq,      \* the tab whose click asked the browser for a new tab (0: none)
  clickTab,      \* the tab the browser opened for that click (0: none)
  clicks,        \* clicks dispatched by the current execute(): <<tab, element>>
  \* ActionExecutor: this.domService is set; the execute() in progress (its
  \* position and locals); the value it returned
  domService, ex, result,
  \* PlaywrightService.cleanup() in progress: its position, the array object
  \* its for-of walks (arr) and whether this.pages still is that object
  \* (same), the loop index, the tab being closed; and what it did: the tabs
  \* tracked at the call, the tabs it called close() on, the kinds of close
  \* in call order
  cl,
  \* ActionExecutor.cleanup() in progress: its position and the tab its
  \* page.evaluate runs on; DOMService.highlightOverlayEnabled
  engine, highlightOverlayEnabled,
  \* one page under DOMService.getPageState: its elements in document order
  \* (doc), the data-element-index attribute of each (marks, 0: none), the
  \* .element-highlight nodes in the body (overlays, each the record index it
  \* labels), the snapshots returned so far (snaps), and whether the page
  \* changed itself since the last one (mutated)
  doc, marks, overlays, snaps, mutated,
  \* createStableSelector: whether the runtime it runs in has the global
  \* CSS object, the attributes passed in, and the outcome of the call
  cssGlobal, attributes, selector,
  \* a scrollable page under a Scroll or a Click: window.scrollY, and the
  \* action in progress (its position and locals, the element its index
  \* named when it started, what scrollToElement returned, the element the
  \* click resolved to)
  scrollY, sc,
  \* the element under typeBySelector (its kind, whether the selector finds
  \* it, whether it is visible and editable, its value) and the call in
  \* progress
  field, typing,
  \* one request to the oracle: the provider asked, whether a screenshot
  \* goes with it, what the model answered, what the provider returned and
  \* what getNextAction / getNextStep returned or threw
  oracle,
  \* one request to the HTTP POST handler: its position, its locals browser
  \* and page, the response its try or catch block returned (pending), the
  \* close calls its finally block made, and how the request ended
  rt,
  \* PlaywrightService.switchToPage in progress: its predicate (the tabs it
  \* accepts), the array object its for-of walks (arr) and whether
  \* this.pages still is that object (same), the loop index, the tab under
  \* the predicate, and what the call returned
  sw,
  \* the data-stable-id attribute of each element of the page under
  \* DOMService.clickElement (stableIds, 0: none), and the clickElement or
  \* DOMService.cleanup call in progress
  stableIds, ds,
  \* one click step of the HTTP route's executeStep: the page it runs on, its
  \* position, the clicks it delivered and how it ended
  stp,
  \* the useAgent hook: its React state, the requests to /api/agent that are
  \* in flight (each with the state its handler closed over), and whether
  \* reset() was the last call of the user
  hook

sessionVars == <<browser, context, page, pages, launched, newPages, ctxHandler,
                 tabCtx, tabState, handlerWait, closeHandler>>
initVars == <<initPc, initBrowser, initTab, initRetPage>>
pageVars == <<url, dom, stamp, popupReq, clickTab, clicks>>
execVars == <<domService, ex, result, engine, highlightOverlayEnabled>>
engineVars == <<engine, highlightOverlayEnabled>>
\* the variables of the components the session and the executor never touch
captureVars == <<doc, marks, overlays, snaps, mutated>>
resolverVars == <<cssGlobal, attributes, selector>>
scrollVars == <<scrollY, sc>>
\* the components modelled after the capture and the resolver
typeVars == <<field, typing>>
\* the layers around the browser components
outerVars == <<oracle, rt, sw>>
\* the marker of clickElement
markerVars == <<stableIds, ds>>
\* the HTTP route's step and the browser-side hook
clientVars == <<stp, hook>>
laterVars == <<scrollVars, typeVars, outerVars, markerVars, clientVars>>
libVars == <<captureVars, resolverVars, laterVars>>
\* what execute() never touches
idleVars == <<initVars, cl, libVars>>
vars == <<sessionVars, initVars, pageVars, execVars, cl, libVars>>

\* createStableSelector not called
NoSelector == [pc |-> "idle", value |-> <<>>]

\* no selector asked for
InitNoResolver ==
  /\ cssGlobal = FALSE
  /\ attributes = <<>>
  /\ selector = NoSelector

\* no Scroll or Click on a scrollable page
ScIdle ==
  [pc |-> "idle", action |-> "none", index |-> 0, target |-> 0,
   selector |-> <<>>, boxY |-> 0, ret |-> "none", inView |-> FALSE,
   clicked |-> 0]

InitNoScroll ==
  /\ scrollY = 0
  /\ sc = ScIdle

\* no element under typeBySelector
NoField ==
  [kind |-> "none", attached |-> FALSE, visible |-> FALSE,
   editable |-> FALSE, value |-> <<>>]

\* no typeBySelector called: `verified` records that the checks of
\* 1145-1154 passed, `typed` counts the characters element.type has entered
TyIdle ==
  [pc |-> "idle", text |-> <<>>, startValue |-> <<>>, verified |-> FALSE,
   typed |-> 0]

InitNoType ==
  /\ field = NoField
  /\ typing = TyIdle

\* no request to the oracle
OracleIdle ==
  [pc |-> "idle", provider |-> "none", vision |-> FALSE, text |-> <<>>,
   tool |-> <<>>, response |-> <<>>, action |-> <<>>]

\* no request to the POST handler
RtIdle ==
  [pc |-> "idle", currentUrl |-> FALSE, browser |-> FALSE, page |-> FALSE,
   step |-> "none", pending |-> "none", failed |-> FALSE,
   pageClose |-> "none", browserClose |-> "none", outcome |-> "none"]

\* no switchToPage called
SwIdle ==
  [pc |-> "idle", pred |-> {}, arr |-> <<>>, same |-> FALSE, idx |-> 0,
   cur |-> 0, ret |-> FALSE]

InitOuter ==
  /\ oracle = OracleIdle
  /\ rt = RtIdle
  /\ sw = SwIdle

\* no clickElement or cleanup of the DOMService called: `calls` counts the
\* clickElement calls, `uid` is the marker value of the present one
DsIdle ==
  [pc |-> "idle", op |-> "none", index |-> 0, el |-> 0, base |-> <<>>,
   boxY |-> 0, uid |-> 0, calls |-> 0, ret |-> "none"]

InitNoMarker ==
  /\ stableIds = <<>>
  /\ ds = DsIdle

\* no click step in the route
StpIdle ==
  [pc |-> "idle", dom |-> <<>>, selector |-> FALSE, clicks |-> <<>>,
   error |-> "none", settled |-> FALSE, shot |-> FALSE]

\* the state useState starts with, which is also what reset() sets
\*                                                  unnamed/part_001 25-33
InitialAgentState ==
  [goal |-> 0, currentUrl |-> 0, actions |-> 0, isProcessing |-> FALSE,
   error |-> "null", isComplete |-> FALSE]

HookIdle == [state |-> InitialAgentState, flights |-> <<>>, reset |-> FALSE]

InitNoClient ==
  /\ stp = StpIdle
  /\ hook = HookIdle

InitLater ==
  /\ InitNoScroll
  /\ InitNoType
  /\ InitOuter
  /\ InitNoMarker
  /\ InitNoClient

\* no page under capture
InitNoCapture ==
  /\ doc = <<>> /\ marks = <<>> /\ overlays = <<>> /\ snaps = <<>>
  /\ mutated = FALSE

\* no page under capture, no selector asked for
InitLib ==
  /\ InitNoCapture
  /\ InitNoResolver
  /\ InitLater

\* ----------------------------------------------------------------- helpers
Last(s) == s[Len(s)]

InSeq(x, s) == \E i \in 1..Len(s) : s[i] = x

\* Array.prototype.filter(p => p !== t)
RemoveTab(s, t) == SelectSeq(s, LAMBDA p : p # t)

\* tabs are numbered in the order the browser creates them
NumTabs == Cardinality({t \in Tabs : tabState[t] # "none"})
NextTab == NumTabs + 1

IsOpen(t) == t \in Tabs /\ tabState[t] = "open"

\* ------------------------------------------------ PlaywrightService events

\* page.on('close', () => {...})                       dom-service.ts 919-926
PageCloseHandler(t) ==
  LET rest == RemoveTab(pages, t) IN
  /\ pages' = rest
  /\ page' = IF page = t
               THEN (IF Len(rest) > 0 THEN Last(rest) ELSE 0)
               ELSE page
  /\ cl' = [cl EXCEPT !.same = FALSE]

\* context.on('page', async (page) => {...}) up to its await: 908-913
ContextPageHandlerStart(t) ==
  /\ pages' = Append(pages, t)
  /\ handlerWait' = [handlerWait EXCEPT ![t] = TRUE]
  /\ cl' = IF cl.same THEN [cl EXCEPT !.arr = Append(@, t)] ELSE cl

\* the handler after `await page.waitForLoadState('domcontentloaded')`: 915-926
ContextPageHandlerResume(t) ==
  /\ page' = t
  /\ closeHandler' = [closeHandler EXCEPT ![t] = TRUE]
  /\ handlerWait' = [handlerWait EXCEPT ![t] = FALSE]

\* The browser creates tab t in context b; Playwright emits 'page' on the
\* context, which runs the handler if one is registered there.
CreateTab(t, b) ==
  /\ tabState' = [tabState EXCEPT ![t] = "open"]
  /\ tabCtx' = [tabCtx EXCEPT ![t] = b]
  /\ IF ctxHandler[b]
       THEN ContextPageHandlerStart(t)
       ELSE UNCHANGED <<pages, handlerWait, cl>>

\* A page of an open tab opens a new tab (target=_blank, window.open).
TabOpen(opener) ==
  /\ IsOpen(opener)
  /\ NextTab \in Tabs
  /\ CreateTab(NextTab, tabCtx[opener])
  /\ UNCHANGED <<browser, context, page, launched, newPages, ctxHandler,
                 closeHandler>>

\* Tab t reaches DOM-content-loaded: a suspended handler resumes.
TabLoaded(t) ==
  /\ IsOpen(t)
  /\ handlerWait[t]
  /\ ContextPageHandlerResume(t)
  /\ UNCHANGED <<browser, context, pages, launched, newPages, ctxHandler,
                 tabCtx, tabState, cl>>

\* Tab t closes.  A handler suspended in waitForLoadState is rejected and
\* never registers the close handler; a registered close handler runs.
TabClose(t) ==
  /\ IsOpen(t)
  /\ \A c \in Callers : ~(initPc[c] = "newPageResolve" /\ initTab[c] = t)
  /\ tabState' = [tabState EXCEPT ![t] = "closed"]
  /\ tabCtx' = [tabCtx EXCEPT ![t] = 0]
  /\ handlerWait' = [handlerWait EXCEPT ![t] = FALSE]
  /\ closeHandler' = [closeHandler EXCEPT ![t] = FALSE]
  /\ IF closeHandler[t]
       THEN PageCloseHandler(t)
       ELSE UNCHANGED <<page, pages, cl>>
  /\ UNCHANGED <<browser, context, launched, newPages, ctxHandler>>

\* ------------------------------------------- PlaywrightService.initialize
\* dom-service.ts 893-956.  InitDone is `return`, InitThrow is `throw`,
\* InitStep moves the call to its next await holding browser b and tab t.
InitDone(c) ==
  /\ initPc' = [initPc EXCEPT ![c] = "returned"]
  /\ initRetPage' = [initRetPage EXCEPT ![c] = page']
  /\ initBrowser' = [initBrowser EXCEPT ![c] = 0]
  /\ initTab' = [initTab EXCEPT ![c] = 0]
  /\ UNCHANGED <<pageVars, execVars, cl, libVars>>

InitThrow(c) ==
  /\ initPc' = [initPc EXCEPT ![c] = "threw"]
  /\ initRetPage' = [initRetPage EXCEPT ![c] = 0]
  /\ initBrowser' = [initBrowser EXCEPT ![c] = 0]
  /\ initTab' = [initTab EXCEPT ![c] = 0]
  /\ UNCHANGED <<pageVars, execVars, cl, libVars>>

InitStep(c, pc, b, t) ==
  /\ initPc' = [initPc EXCEPT ![c] = pc]
  /\ initRetPage' = [initRetPage EXCEPT ![c] = 0]
  /\ initBrowser' = [initBrowser EXCEPT ![c] = b]
  /\ initTab' = [initTab EXCEPT ![c] = t]
  /\ UNCHANGED <<pageVars, execVars, cl, libVars>>

\* `if (this.browser) return;` then the call of chromium.launch: 894-900
InitGuard(c) ==
  IF browser # 0
    THEN InitDone(c)
    ELSE InitStep(c, "launch", 0, 0)

InitCall(c) ==
  /\ initPc[c] \in {"idle", "returned", "threw"}
  /\ UNCHANGED sessionVars
  /\ InitGuard(c)

\* `this.browser = await chromium.launch(...)` resolves, newContext is called
InitLaunchOk(c) ==
  /\ initPc[c] = "launch"
  /\ launched < MaxBrowsers
  /\ launched' = launched + 1
  /\ browser' = launched + 1
  /\ InitStep(c, "newContext", launched + 1, 0)
  /\ UNCHANGED <<context, page, pages, newPages, ctxHandler, tabCtx, tabState,
                 handlerWait, closeHandler>>

\* launch rejects with "Executable doesn't exist": execSync installs, and
\* launch is called again (933-938); a failing install throws (945-950)
InitLaunchMissing(c) ==
  /\ initPc[c] = "launch"
  /\ UNCHANGED sessionVars
  /\ \E installed \in BOOLEAN :
       IF installed
         THEN InitStep(c, "install_launch", 0, 0)
         ELSE InitThrow(c)

\* launch rejects with any other error: `throw error` (952-954)
InitLaunchFail(c) ==
  /\ initPc[c] = "launch"
  /\ UNCHANGED sessionVars
  /\ InitThrow(c)

\* `this.context = await this.browser.newContext()` resolves; the 'page'
\* handler is registered and context.newPage() is called: 905-929
InitNewContext(c) ==
  /\ initPc[c] = "newContext"
  /\ UNCHANGED <<browser, page, pages, launched, newPages, tabCtx, tabState,
                 handlerWait, closeHandler>>
  /\ \E ok \in BOOLEAN :
       IF ok
         THEN /\ context' = initBrowser[c]
              /\ ctxHandler' = [ctxHandler EXCEPT ![initBrowser[c]] = TRUE]
              /\ InitStep(c, "newPageCreate", initBrowser[c], 0)
         ELSE /\ UNCHANGED <<context, ctxHandler>>
              /\ InitThrow(c)

\* context.newPage(): the browser creates the tab and the context emits
\* 'page' for it before the promise resolves.  The tab is about:blank and
\* already at DOM-content-loaded, so the handler's waitForLoadState does not
\* suspend on a load event: the handler runs to its end (908-927).
InitNewPageCreate(c) ==
  /\ initPc[c] = "newPageCreate"
  /\ UNCHANGED <<browser, context, launched, ctxHandler, handlerWait>>
  /\ \/ /\ NextTab \in Tabs
        /\ tabState' = [tabState EXCEPT ![NextTab] = "open"]
        /\ tabCtx' = [tabCtx EXCEPT ![NextTab] = initBrowser[c]]
        /\ newPages' = newPages + 1
        /\ pages' = Append(pages, NextTab)
        /\ page' = NextTab
        /\ closeHandler' = [closeHandler EXCEPT ![NextTab] = TRUE]
        /\ InitStep(c, "newPageResolve", 0, NextTab)
     \/ /\ UNCHANGED <<tabState, tabCtx, newPages, pages, page, closeHandler>>
        /\ InitThrow(c)

\* `this.page = await this.context.newPage(); this.pages.push(this.page);`
\* and the call of setViewportSize: 929-931
InitNewPageResolve(c) ==
  /\ initPc[c] = "newPageResolve"
  /\ page' = initTab[c]
  /\ pages' = Append(pages, initTab[c])
  /\ InitStep(c, "viewport", 0, 0)
  /\ UNCHANGED <<browser, context, launched, newPages, ctxHandler, tabCtx,
                 tabState, handlerWait, closeHandler>>

\* `await this.page.setViewportSize(...)` settles: 931, 944
InitViewport(c) ==
  /\ initPc[c] = "viewport"
  /\ UNCHANGED sessionVars
  /\ \E ok \in BOOLEAN : IF ok THEN InitDone(c) ELSE InitThrow(c)

\* the retry after the install: 938-943.  No 'page' handler is registered on
\* the retried context.
InstallLaunch(c) ==
  /\ initPc[c] = "install_launch"
  /\ UNCHANGED <<context, page, pages, newPages, ctxHandler, tabCtx, tabState,
                 handlerWait, closeHandler>>
  /\ \/ /\ launched < MaxBrowsers
        /\ launched' = launched + 1
        /\ browser' = launched + 1
        /\ InitStep(c, "install_newContext", launched + 1, 0)
     \/ /\ UNCHANGED <<launched, browser>>
        /\ InitThrow(c)

InstallNewContext(c) ==
  /\ initPc[c] = "install_newContext"
  /\ UNCHANGED <<browser, page, pages, launched, newPages, ctxHandler, tabCtx,
                 tabState, handlerWait, closeHandler>>
  /\ \E ok \in BOOLEAN :
       IF ok
         THEN /\ context' = initBrowser[c]
              /\ InitStep(c, "install_newPage", initBrowser[c], 0)
         ELSE /\ UNCHANGED context
              /\ InitThrow(c)

\* `this.page = await this.context.newPage(); this.pages.push(this.page);`
\* and the call of setViewportSize: 942-944
InstallNewPage(c) ==
  /\ initPc[c] = "install_newPage"
  /\ UNCHANGED <<browser, context, launched, ctxHandler, handlerWait,
                 closeHandler>>
  /\ \/ /\ NextTab \in Tabs
        /\ tabState' = [tabState EXCEPT ![NextTab] = "open"]
        /\ tabCtx' = [tabCtx EXCEPT ![NextTab] = initBrowser[c]]
        /\ newPages' = newPages + 1
        /\ page' = NextTab
        /\ pages' = Append(pages, NextTab)
        /\ InitStep(c, "viewport", 0, 0)
     \/ /\ UNCHANGED <<tabState, tabCtx, newPages, page, pages>>
        /\ InitThrow(c)

Initialize(c) ==
  \/ InitCall(c)
  \/ InitLaunchOk(c)
  \/ InitLaunchMissing(c)
  \/ InitLaunchFail(c)
  \/ InitNewContext(c)
  \/ InitNewPageCreate(c)
  \/ InitNewPageResolve(c)
  \/ InitViewport(c)
  \/ InstallLaunch(c)
  \/ InstallNewContext(c)
  \/ InstallNewPage(c)

\* ---------------------------------------------- PlaywrightService.cleanup
\* dom-service.ts 978-1013.  Every close() is awaited with a .catch that
\* logs, so a close that fails and one that succeeds continue alike.  A
\* close() settles once its target is gone: the tab (TabClose), every tab
\* of the context, every tab of the browser.
ClIdle ==
  [pc |-> "idle", arr |-> <<>>, same |-> FALSE, idx |-> 0, cur |-> 0,
   tracked |-> {}, attempted |-> {}, passed |-> {}, order |-> <<>>,
   retPage |-> 0]

\* the kinds of close called so far, in call order
Note(order, kind) ==
  IF Len(order) > 0 /\ Last(order) = kind THEN order ELSE Append(order, kind)

\* a close() is called on tab t
CloseTabCall(c, pc, t) ==
  [c EXCEPT !.pc = pc, !.cur = t, !.attempted = @ \cup {t},
            !.order = Note(@, "tab")]

\* `if (this.browser) await this.browser.close()...`, else the return with
\* this.page being p                                              1006-1013
AfterContext(c, p) ==
  IF browser # 0
    THEN [c EXCEPT !.pc = "closeBrowser", !.cur = browser,
                   !.order = Note(@, "browser")]
    ELSE [c EXCEPT !.pc = "returned", !.cur = 0, !.retPage = p]

\* `if (this.context) await this.context.close()...`; the tracked tabs
\* that are open and were never given a close() are the ones cleanup()
\* passed over                                                     998-1004
AfterPage(c, p) ==
  LET d == [c EXCEPT !.passed = {t \in c.tracked \ c.attempted : IsOpen(t)}]
  IN IF context # 0
       THEN [d EXCEPT !.pc = "closeContext", !.cur = context,
                      !.order = Note(@, "context")]
       ELSE AfterContext(d, p)

\* The for-of from position i of the array it walks: the tabs that are
\* this.page are passed over, close() is called on the first other one
\* (979-986); at the end of the array this.pages is replaced and close() is
\* called on this.page (988-990)
LoopFrom(c, i) ==
  LET others == {j \in i..Len(c.arr) : c.arr[j] # page}
      done == [c EXCEPT !.arr = <<>>, !.same = FALSE, !.idx = 0]
  IN IF others # {}
       THEN LET j == CHOOSE k \in others : \A m \in others : k <= m
            IN /\ cl' = [CloseTabCall(c, "closeTab", c.arr[j]) EXCEPT !.idx = j]
               /\ UNCHANGED pages
       ELSE /\ pages' = IF page # 0 THEN <<page>> ELSE <<>>
            /\ cl' = IF page # 0
                       THEN CloseTabCall(done, "closeActive", page)
                       ELSE AfterPage(done, 0)

\* what cleanup() leaves alone
CleanupFrame ==
  /\ UNCHANGED <<launched, newPages, ctxHandler, tabCtx, tabState,
                 handlerWait, closeHandler>>
  /\ UNCHANGED <<initVars, pageVars, execVars, libVars>>

\* cleanup() up to its first await                                   978-990
CleanupCall ==
  /\ cl.pc \in {"idle", "returned"}
  /\ LoopFrom([ClIdle EXCEPT !.arr = pages, !.same = TRUE,
                             !.tracked = {pages[i] : i \in 1..Len(pages)}], 1)
  /\ UNCHANGED <<browser, context, page>>
  /\ CleanupFrame

\* page.close() of the loop settles                                  981-984
CleanupTabSettled ==
  /\ cl.pc = "closeTab"
  /\ ~IsOpen(cl.cur)
  /\ LoopFrom(cl, cl.idx + 1)
  /\ UNCHANGED <<browser, context, page>>
  /\ CleanupFrame

\* this.page.close() settles; `this.page = null`                     991-995
CleanupActiveSettled ==
  /\ cl.pc = "closeActive"
  /\ ~IsOpen(cl.cur)
  /\ page' = 0
  /\ cl' = AfterPage(cl, 0)
  /\ UNCHANGED <<browser, context, pages>>
  /\ CleanupFrame

\* this.context.close() settles; `this.context = null`              999-1003
CleanupContextSettled ==
  /\ cl.pc = "closeContext"
  /\ \A t \in Tabs : tabCtx[t] = cl.cur => ~IsOpen(t)
  /\ context' = 0
  /\ cl' = AfterContext(cl, page)
  /\ UNCHANGED <<browser, page, pages>>
  /\ CleanupFrame

\* this.browser.close() settles; `this.browser = null`; the return
\*                                                                 1007-1013
CleanupBrowserSettled ==
  /\ cl.pc = "closeBrowser"
  /\ \A t \in Tabs : tabCtx[t] = cl.cur => ~IsOpen(t)
  /\ browser' = 0
  /\ cl' = [cl EXCEPT !.pc = "returned", !.cur = 0, !.retPage = page]
  /\ UNCHANGED <<context, page, pages>>
  /\ CleanupFrame

Cleanup ==
  \/ CleanupCall
  \/ CleanupTabSettled
  \/ CleanupActiveSettled
  \/ CleanupContextSettled
  \/ CleanupBrowserSettled

\* ------------------------------------------------------------------ pages
\* URLs a Goto may name: one that never reaches network idle but reaches
\* DOM-content-loaded (continuous polling), and one whose attempts may each
\* succeed or fail
GotoUrls == {"site-polling", "site-other"}

PopupUrl(t) == "popup-" \o ToString(t)

\* every element there is, in capture (priority) order
AllElements == [k \in Elements |-> k]

\* the last element is a link with target="_blank"
IsBlankLink(e) == e = MaxElems

\* the elements the page may remove from its document: the first one, so
\* that its removal shifts the indices of the others
Volatile == {1}

\* page-initiated DOM mutation is modelled on the first tab
MutableTabs == {1}

RemoveElem(s, e) == SelectSeq(s, LAMBDA x : x # e)

\* document.querySelector('[data-element-index="k"]') on tab t: the element
\* the last capture stamped k, if it is still in the document (0: null)
Stamped(t, k) ==
  IF k \in 1..Len(stamp[t]) /\ InSeq(stamp[t][k], dom[t]) THEN stamp[t][k] ELSE 0

\* the capture of a getPageState on tab t: the visible interactive elements
\* are stamped with their index in priority order     dom-service 412-560
Capture(t) == stamp' = [stamp EXCEPT ![t] = dom[t]]

\* index k is in a capture of tab t
HasIndex(t, k) == k \in 1..Len(dom[t])

InitPages ==
  /\ url = [t \in Tabs |-> IF t = 1 THEN "about:blank" ELSE PopupUrl(t)]
  /\ dom = [t \in Tabs |-> AllElements]
  /\ stamp = [t \in Tabs |-> <<>>]
  /\ popupReq = 0
  /\ clickTab = 0
  /\ clicks = <<>>

\* -------------------------------------------------------- ActionExecutor
\* '' and undefined                                     executor.ts 101-103
NoUrl == ""
NoShot == [tab |-> 0, fresh |-> FALSE]
NoState == [tab |-> 0, elements |-> <<>>, fresh |-> FALSE]
NoAction == [type |-> "none", index |-> 0, url |-> ""]

\* the Action union                                     unnamed/part_007 1-35
Actions ==
  {[type |-> "goto", index |-> 0, url |-> u] : u \in GotoUrls}
  \cup {[type |-> ty, index |-> k, url |-> ""] :
          ty \in {"click", "type", "scroll"}, k \in Elements}
  \cup {[type |-> "complete", index |-> 0, url |-> ""]}

\* an execute() that has not started: pc is the await it is suspended at;
\* opTab the tab the awaited primitive was called on; elemTab/clickElem the
\* element handle of clickBySelector; attempted: the action's switch has
\* ended; fault: a primitive failed because its tab was gone or the browser
\* refused; gotoLog: the navigation attempts of goto, <<tab, waitUntil,
\* succeeded>>; gotoOutcome: how goto() ended; gotoSettled: its 2000 ms
\* delay has passed; missing: validateElement's capture had no element at
\* the action's index; sawNewPage: clickBySelector found this.pages longer
\* than before the click; settled: the waitForLoadState of execute
\* (executor.ts 76) has returned in this call
ExIdle ==
  [pc |-> "idle", action |-> NoAction, attempted |-> FALSE, error |-> "",
   curUrl |-> NoUrl, shot |-> NoShot, pstate |-> NoState, opTab |-> 0,
   elemTab |-> 0, clickElem |-> 0, pageCountBefore |-> 0, fault |-> FALSE,
   gotoLog |-> <<>>, gotoOutcome |-> "none", gotoSettled |-> FALSE,
   missing |-> FALSE, sawNewPage |-> FALSE, settled |-> FALSE]

NoResult ==
  [status |-> "none", success |-> FALSE, error |-> "", currentUrl |-> NoUrl,
   screenshot |-> NoShot, pageState |-> NoState]

\* no ActionExecutor.cleanup() called
EngineIdle == [pc |-> "idle", tab |-> 0]

InitExecutor ==
  /\ engine = EngineIdle
  /\ highlightOverlayEnabled = FALSE
  /\ domService = FALSE
  /\ ex = ExIdle
  /\ result = NoResult

\* execute() has returned: its locals are gone, the ghosts stay
Finished(e, status) ==
  [e EXCEPT !.pc = status, !.curUrl = NoUrl, !.shot = NoShot,
            !.pstate = NoState, !.opTab = 0, !.elemTab = 0, !.clickElem = 0,
            !.pageCountBefore = 0]

\* `return { success: true, currentUrl, screenshot, pageState }`      86-95
ReturnSuccess(e) ==
  /\ result' = [status |-> "returned", success |-> TRUE, error |-> "",
                currentUrl |-> e.curUrl, screenshot |-> e.shot,
                pageState |-> e.pstate]
  /\ ex' = Finished(e, "returned")

\* `return { success: false, error, currentUrl, screenshot, pageState }`
\*                                                                  122-128
ReturnFailure(e) ==
  /\ result' = [status |-> "returned", success |-> FALSE, error |-> e.error,
                currentUrl |-> e.curUrl, screenshot |-> e.shot,
                pageState |-> e.pstate]
  /\ ex' = Finished(e, "returned")

\* variant: the catch block without its inner try, the failure leaves
\* execute()
CaptureFailedAfterError_rethrow(e) ==
  /\ result' = [NoResult EXCEPT !.status = "threw"]
  /\ ex' = Finished([e EXCEPT !.fault = TRUE], "threw")

\* a failure while collecting the state after a failure is caught and
\* logged                                                           118-120
CaptureFailedAfterError(e) ==
  ReturnFailure([e EXCEPT !.fault = TRUE])

\* The catch block up to its first await (97-107): the locals are reset,
\* getCurrentUrl reads the active tab's URL (throws when there is none),
\* takeScreenshot is called.  `flt`: a primitive failed on its tab.
EnterCatch(e, msg, flt) ==
  LET c == [e EXCEPT !.attempted = TRUE, !.error = msg, !.curUrl = NoUrl,
                     !.shot = NoShot, !.pstate = NoState,
                     !.fault = e.fault \/ flt]
  IN IF page = 0
       THEN CaptureFailedAfterError(c)
       ELSE /\ ex' = [c EXCEPT !.pc = "f_shot", !.curUrl = url[page],
                               !.opTab = page]
            /\ result' = NoResult

\* variant: the catch block never captures the page state
HasDomService_never == FALSE

\* `if (this.domService)`                                              109
HasDomService == domService

\* takeScreenshot settles in the catch block; getPageState(true) is called
\* if this.domService is set                                        107-110
FailShot ==
  /\ ex.pc = "f_shot"
  /\ UNCHANGED <<sessionVars, idleVars, engineVars, pageVars, domService>>
  /\ \E ok \in BOOLEAN :
       IF ok /\ IsOpen(ex.opTab)
         THEN LET c == [ex EXCEPT !.shot = [tab |-> ex.opTab, fresh |-> ex.attempted]]
              IN IF ~HasDomService
                   THEN ReturnFailure(c)
                   ELSE IF page = 0
                     THEN CaptureFailedAfterError(c)
                     ELSE /\ ex' = [c EXCEPT !.pc = "f_pstate", !.opTab = page]
                          /\ result' = NoResult
         ELSE CaptureFailedAfterError(ex)

\* getPageState(true) settles in the catch block; getFormattedElements is
\* called                                                          110-111
FailPageState ==
  /\ ex.pc = "f_pstate"
  /\ UNCHANGED <<sessionVars, idleVars, engine, url, dom, popupReq, clickTab,
                 clicks, domService>>
  /\ \E ok \in BOOLEAN :
       IF ok /\ IsOpen(ex.opTab)
         THEN /\ Capture(ex.opTab)
              /\ highlightOverlayEnabled' = TRUE
              /\ IF page = 0
                   THEN CaptureFailedAfterError(ex)
                   ELSE /\ ex' = [ex EXCEPT !.pc = "f_fmt", !.opTab = page]
                        /\ result' = NoResult
         ELSE /\ UNCHANGED <<stamp, highlightOverlayEnabled>>
              /\ CaptureFailedAfterError(ex)

\* getFormattedElements settles in the catch block; pageState is built
\*                                                                 111-116
FailFormatted ==
  /\ ex.pc = "f_fmt"
  /\ UNCHANGED <<sessionVars, idleVars, engineVars, url, dom, popupReq, clickTab, clicks,
                 domService>>
  /\ \E ok \in BOOLEAN :
       IF ok /\ IsOpen(ex.opTab)
         THEN /\ Capture(ex.opTab)
              /\ ReturnFailure([ex EXCEPT !.pstate =
                   [tab |-> ex.opTab, elements |-> dom[ex.opTab],
                    fresh |-> ex.attempted]])
         ELSE /\ UNCHANGED stamp
              /\ CaptureFailedAfterError(ex)

\* playwrightService.waitForLoadState() is called (executor.ts 76): it
\* throws when there is no active tab (dom-service.ts 1232)
CallSettle(e) ==
  IF page = 0
    THEN EnterCatch(e, "Browser not initialized", TRUE)
    ELSE /\ ex' = [e EXCEPT !.pc = "settle", !.attempted = TRUE, !.opTab = page]
         /\ result' = NoResult

\* variant: waitForLoadState('networkidle') without a timeout settles only
\* on a page that reaches network idle
IdleWaitSettles_untimed(t) == url[t] # "site-polling"

\* waitForLoadState('networkidle', { timeout }) settles on every page: at
\* network idle, at the timeout, or when the tab is gone
\*                                                  dom-service.ts 1234-1243
IdleWaitSettles(t) == TRUE

\* waitForLoadState settles: network idle or its timeout (the error is
\* swallowed), then the fixed 1000 ms (dom-service.ts 1234-1246);
\* getCurrentUrl, and takeScreenshot is called (executor.ts 79-80)
Settle ==
  /\ ex.pc = "settle"
  /\ IdleWaitSettles(ex.opTab)
  /\ UNCHANGED <<sessionVars, idleVars, engineVars, pageVars, domService>>
  /\ IF page = 0
       THEN EnterCatch([ex EXCEPT !.settled = TRUE],
                       "Browser not initialized", TRUE)
       ELSE /\ ex' = [ex EXCEPT !.pc = "shot", !.curUrl = url[page],
                                !.opTab = page, !.settled = TRUE]
            /\ result' = NoResult

\* takeScreenshot settles; getPageState(true) is called    executor.ts 80-83
Shot ==
  /\ ex.pc = "shot"
  /\ UNCHANGED <<sessionVars, idleVars, engineVars, pageVars, domService>>
  /\ \E ok \in BOOLEAN :
       IF ok /\ IsOpen(ex.opTab)
         THEN LET c == [ex EXCEPT !.shot = [tab |-> ex.opTab, fresh |-> ex.attempted]]
              IN IF page = 0
                   THEN EnterCatch(c, "No active page available", TRUE)
                   ELSE /\ ex' = [c EXCEPT !.pc = "pstate", !.opTab = page]
                        /\ result' = NoResult
         ELSE EnterCatch(ex, "Failed to take screenshot", TRUE)

\* getPageState(true) settles; getFormattedElements is called        83-84
PageState ==
  /\ ex.pc = "pstate"
  /\ UNCHANGED <<sessionVars, idleVars, engine, url, dom, popupReq, clickTab,
                 clicks, domService>>
  /\ \E ok \in BOOLEAN :
       IF ok /\ IsOpen(ex.opTab)
         THEN /\ Capture(ex.opTab)
              /\ highlightOverlayEnabled' = TRUE
              /\ IF page = 0
                   THEN EnterCatch(ex, "No active page available", TRUE)
                   ELSE /\ ex' = [ex EXCEPT !.pc = "fmt", !.opTab = page]
                        /\ result' = NoResult
         ELSE /\ UNCHANGED <<stamp, highlightOverlayEnabled>>
              /\ EnterCatch(ex, "page.evaluate failed", TRUE)

\* getFormattedElements settles; the result is returned              84-95
Formatted ==
  /\ ex.pc = "fmt"
  /\ UNCHANGED <<sessionVars, idleVars, engineVars, url, dom, popupReq, clickTab, clicks,
                 domService>>
  /\ \E ok \in BOOLEAN :
       IF ok /\ IsOpen(ex.opTab)
         THEN /\ Capture(ex.opTab)
              /\ ReturnSuccess([ex EXCEPT !.pstate =
                   [tab |-> ex.opTab, elements |-> dom[ex.opTab],
                    fresh |-> ex.attempted]])
         ELSE /\ UNCHANGED stamp
              /\ EnterCatch(ex, "page.evaluate failed", TRUE)

\* the error messages that name an element
NotValidMsg(k) == "Element with index " \o ToString(k) \o " is not valid or visible"
NotFoundMsg(k) == "Element with index " \o ToString(k) \o " not found"
ClickFailedMsg(k) == "Failed to click element with selector: [data-element-index=" \o ToString(k) \o "]"
TypeFailedMsg(k) == "Failed to type text into element with selector: [data-element-index=" \o ToString(k) \o "]"

\* the execute() is suspended at `pc` on a primitive called on `tab`
Await(e, pc, tab) ==
  /\ ex' = [e EXCEPT !.pc = pc, !.opTab = tab]
  /\ result' = NoResult

\* DOMService.getCurrentPage() in front of a page.evaluate   dom-service 398-404
CallEvaluate(e, pc) ==
  IF page = 0
    THEN EnterCatch(e, "No active page available", TRUE)
    ELSE Await(e, pc, page)

\* what follows scrollToElement in the switch     executor.ts 41, 61, 67
AfterScroll(e) ==
  IF e.action.type = "click"
    THEN CallEvaluate(e, "getel")
    ELSE IF e.action.type = "type"
      THEN IF page = 0
             THEN EnterCatch(e, "Browser not initialized", TRUE)
             ELSE Await(e, "type_sel", page)
      ELSE CallSettle(e)

\* execute(action) up to its first await: ensureDOMService, then the
\* switch calls the first primitive of the action: goto for a Goto,
\* validateElement for a Click or a Type, scrollToElement (which is not
\* preceded by a validation) for a Scroll             executor.ts 9-32, 66
ExecStart(a) ==
  /\ ex.pc = "idle"
  /\ UNCHANGED <<sessionVars, idleVars, engineVars, pageVars>>
  /\ LET e == [ExIdle EXCEPT !.action = a]
     IN IF ~domService /\ page = 0
          THEN /\ UNCHANGED domService
               /\ EnterCatch(e, "Browser page not initialized", TRUE)
          ELSE /\ domService' = TRUE
               /\ IF a.type = "goto"
                    THEN IF page = 0
                           THEN EnterCatch([e EXCEPT !.gotoOutcome = "error"],
                                           "Browser not initialized", TRUE)
                           ELSE Await(e, "goto1", page)
                    ELSE IF a.type \in {"click", "type"}
                      THEN CallEvaluate(e, "validate")
                      ELSE IF a.type = "scroll"
                        THEN CallEvaluate(e, "scroll_get")
                        ELSE CallSettle(e)

\* a navigation attempt on tab t to u succeeds: "site-polling" never reaches
\* network idle and always reaches DOM-content-loaded, the other URL does
\* as the network lets it (ok)
CanLoad(t, u, waitUntil, ok) ==
  /\ IsOpen(t)
  /\ IF u = "site-polling" THEN waitUntil = "domcontentloaded" ELSE ok

\* the document of tab t is replaced by the one at u
Navigate(t, u) ==
  /\ url' = [url EXCEPT ![t] = u]
  /\ dom' = [dom EXCEPT ![t] = AllElements]
  /\ stamp' = [stamp EXCEPT ![t] = <<>>]

\* variant: goto without its second attempt
RetryGoto_none(e) ==
  EnterCatch([e EXCEPT !.gotoOutcome = "error"], "Navigation failed", FALSE)

\* the catch block of goto calls this.page.goto again: a TypeError when
\* there is no active tab any more                  dom-service 1024-1033
RetryGoto(e) ==
  IF page = 0
    THEN EnterCatch([e EXCEPT !.gotoOutcome = "error"],
                    "Cannot read properties of null", TRUE)
    ELSE Await(e, "goto2", page)

\* page.goto(url, networkidle) settles               dom-service 1019-1033
Goto1 ==
  /\ ex.pc = "goto1"
  /\ UNCHANGED <<sessionVars, idleVars, engineVars, popupReq, clickTab, clicks, domService>>
  /\ \E ok \in BOOLEAN :
       LET t == ex.opTab
           u == ex.action.url
           e == [ex EXCEPT !.gotoLog = Append(@, <<t, "networkidle",
                                                   CanLoad(t, u, "networkidle", ok)>>)]
       IN IF CanLoad(t, u, "networkidle", ok)
            THEN /\ Navigate(t, u)
                 /\ CallSettle([e EXCEPT !.gotoOutcome = "ok"])
            ELSE /\ IF IsOpen(t) /\ u = "site-polling"
                      THEN Navigate(t, u)
                      ELSE UNCHANGED <<url, dom, stamp>>
                 /\ RetryGoto(e)

\* page.goto(url, domcontentloaded) settles          dom-service 1030-1035
Goto2 ==
  /\ ex.pc = "goto2"
  /\ UNCHANGED <<sessionVars, idleVars, engineVars, popupReq, clickTab, clicks, domService>>
  /\ \E ok \in BOOLEAN :
       LET t == ex.opTab
           u == ex.action.url
           e == [ex EXCEPT !.gotoLog = Append(@, <<t, "domcontentloaded",
                                                   CanLoad(t, u, "domcontentloaded", ok)>>)]
       IN IF CanLoad(t, u, "domcontentloaded", ok)
            THEN /\ Navigate(t, u)
                 /\ Await(e, "goto_settle", t)
            ELSE /\ UNCHANGED <<url, dom, stamp>>
                 /\ EnterCatch([e EXCEPT !.gotoOutcome = "error"],
                               "Navigation failed", ~IsOpen(t))

\* the 2000 ms after the second attempt have passed        dom-service 1035
GotoSettle ==
  /\ ex.pc = "goto_settle"
  /\ UNCHANGED <<sessionVars, idleVars, engineVars, pageVars, domService>>
  /\ CallSettle([ex EXCEPT !.gotoOutcome = "ok", !.gotoSettled = TRUE])

\* variant: validateElement accepts every index
ValidateElement_always(t, k) == TRUE

\* `element !== null && element.isVisible` on the capture of tab t: every
\* captured element is visible                          dom-service 757-763
ValidateElement(t, k) == HasIndex(t, k)

\* validateElement's capture settles (executor.ts 32-38, 52-58, dom-service
\* 757-763): a missing element is an error, else scrollToElement is called
Validate ==
  /\ ex.pc = "validate"
  /\ UNCHANGED <<sessionVars, idleVars, engineVars, url, dom, popupReq, clickTab, clicks,
                 domService>>
  /\ \E ok \in BOOLEAN :
       IF ok /\ IsOpen(ex.opTab)
         THEN /\ Capture(ex.opTab)
              /\ LET e == [ex EXCEPT !.missing =
                               ~HasIndex(ex.opTab, ex.action.index)]
                 IN IF ValidateElement(ex.opTab, ex.action.index)
                      THEN CallEvaluate(e, "scroll_get")
                      ELSE EnterCatch(e, NotValidMsg(ex.action.index), FALSE)
         ELSE /\ UNCHANGED stamp
              /\ EnterCatch(ex, "page.evaluate failed", TRUE)

\* scrollToElement's getElementByIndex settles (dom-service 673-695): with
\* no element it returns false, which the executor ignores
ScrollGet ==
  /\ ex.pc = "scroll_get"
  /\ UNCHANGED <<sessionVars, idleVars, engineVars, url, dom, popupReq, clickTab, clicks,
                 domService>>
  /\ \E ok \in BOOLEAN :
       IF ok /\ IsOpen(ex.opTab)
         THEN /\ Capture(ex.opTab)
              /\ IF HasIndex(ex.opTab, ex.action.index)
                   THEN Await(ex, "scroll_do", ex.opTab)
                   ELSE AfterScroll(ex)
         ELSE /\ UNCHANGED stamp
              /\ EnterCatch(ex, "page.evaluate failed", TRUE)

\* the scrolling of scrollToElement ends; its errors are swallowed
\*                                                       dom-service 696-755
ScrollDo ==
  /\ ex.pc = "scroll_do"
  /\ UNCHANGED <<sessionVars, idleVars, engineVars, pageVars, domService>>
  /\ AfterScroll(ex)

\* getElementByIndex settles in the click case (executor.ts 41-46): a
\* missing element is an error, else clickBySelector is called, which
\* throws without an active tab (dom-service 1040)
GetEl ==
  /\ ex.pc = "getel"
  /\ UNCHANGED <<sessionVars, idleVars, engineVars, url, dom, popupReq, clickTab, clicks,
                 domService>>
  /\ \E ok \in BOOLEAN :
       IF ok /\ IsOpen(ex.opTab)
         THEN /\ Capture(ex.opTab)
              /\ IF ~HasIndex(ex.opTab, ex.action.index)
                   THEN EnterCatch(ex, NotFoundMsg(ex.action.index), FALSE)
                   ELSE IF page = 0
                     THEN EnterCatch(ex, "Browser not initialized", TRUE)
                     ELSE Await(ex, "cbs_sel", page)
         ELSE /\ UNCHANGED stamp
              /\ EnterCatch(ex, "page.evaluate failed", TRUE)

\* typeBySelector from its waitForSelector to its end   dom-service 1130-1203
TypeBySelector ==
  /\ ex.pc = "type_sel"
  /\ UNCHANGED <<sessionVars, idleVars, engineVars, pageVars, domService>>
  /\ \E ok \in BOOLEAN :
       IF ok /\ IsOpen(ex.opTab) /\ Stamped(ex.opTab, ex.action.index) # 0
         THEN CallSettle(ex)
         ELSE EnterCatch(ex, TypeFailedMsg(ex.action.index), ~IsOpen(ex.opTab))

\* the outer catch of clickBySelector                   dom-service 1121-1127
ClickFailed(e, flt) == EnterCatch(e, ClickFailedMsg(e.action.index), flt)

\* a click event reaches element el of tab t; a target="_blank" link asks
\* the browser for a new tab
Deliver(t, el, how) ==
  /\ clicks' = Append(clicks, <<t, el, how>>)
  /\ popupReq' = IF IsBlankLink(el) THEN t ELSE popupReq

\* `await this.page.waitForTimeout(..)` is called: this.page is read again
CallTimeout(e, pc) ==
  IF page = 0 THEN ClickFailed(e, TRUE) ELSE Await(e, pc, page)

\* `if (this.pages.length > pageCountBefore) await
\* this.page?.waitForLoadState('domcontentloaded')`     dom-service 1084-1089
CheckNewPage(e, pc) ==
  IF Len(pages) > e.pageCountBefore
    THEN IF page # 0
           THEN Await([e EXCEPT !.sawNewPage = TRUE], pc, page)
           ELSE CallSettle([e EXCEPT !.sawNewPage = TRUE])
    ELSE CallSettle(e)

\* waitForSelector settles, then isVisible and boundingBox; the 500 ms
\* wait is called                                       dom-service 1045-1067
CbsSelector ==
  /\ ex.pc = "cbs_sel"
  /\ UNCHANGED <<sessionVars, idleVars, engineVars, pageVars, domService>>
  /\ \E ok \in BOOLEAN :
       LET el == Stamped(ex.opTab, ex.action.index)
       IN IF ok /\ IsOpen(ex.opTab) /\ el # 0
            THEN CallTimeout([ex EXCEPT !.elemTab = ex.opTab, !.clickElem = el],
                             "cbs_stable")
            ELSE ClickFailed(ex, ~IsOpen(ex.opTab))

\* the 500 ms wait settles; the page count is stored and the native click
\* is called                                            dom-service 1067-1078
CbsStable ==
  /\ ex.pc = "cbs_stable"
  /\ UNCHANGED <<sessionVars, idleVars, engineVars, pageVars, domService>>
  /\ IF IsOpen(ex.opTab)
       THEN Await([ex EXCEPT !.pageCountBefore = Len(pages)], "cbs_click",
                  ex.elemTab)
       ELSE ClickFailed(ex, TRUE)

\* element.click() settles: delivered, the 1000 ms wait is called; failed,
\* the fallback's 500 ms wait is called           dom-service 1074-1081, 1097
CbsClick ==
  /\ ex.pc = "cbs_click"
  /\ UNCHANGED <<sessionVars, idleVars, engineVars, url, dom, stamp, clickTab, domService>>
  /\ \E ok \in BOOLEAN :
       IF ok /\ IsOpen(ex.elemTab) /\ InSeq(ex.clickElem, dom[ex.elemTab])
         THEN /\ Deliver(ex.elemTab, ex.clickElem, "native")
              /\ CallTimeout(ex, "cbs_post")
         ELSE /\ UNCHANGED <<clicks, popupReq>>
              /\ CallTimeout(ex, "cbs_fbwait")

\* the 1000 ms wait after the native click settles; a rejection (the tab
\* closed) is caught by the inner catch           dom-service 1081-1097
CbsPost ==
  /\ ex.pc = "cbs_post"
  /\ UNCHANGED <<sessionVars, idleVars, engineVars, pageVars, domService>>
  /\ IF IsOpen(ex.opTab)
       THEN CheckNewPage(ex, "cbs_newpage")
       ELSE CallTimeout(ex, "cbs_fbwait")

\* waitForLoadState('domcontentloaded') on the tab that was active after
\* the wait settles; a rejection is caught by the inner catch
\*                                                dom-service 1088-1097
CbsNewPage ==
  /\ ex.pc = "cbs_newpage"
  /\ UNCHANGED <<sessionVars, idleVars, engineVars, pageVars, domService>>
  /\ \/ /\ IsOpen(ex.opTab) /\ ~handlerWait[ex.opTab]
        /\ CallSettle(ex)
     \/ /\ ~IsOpen(ex.opTab) \/ handlerWait[ex.opTab]
        /\ CallTimeout(ex, "cbs_fbwait")

\* the fallback's 500 ms wait settles; page.evaluate is called
\*                                                dom-service 1097-1100
CbsFallbackWait ==
  /\ ex.pc = "cbs_fbwait"
  /\ UNCHANGED <<sessionVars, idleVars, engineVars, pageVars, domService>>
  /\ IF IsOpen(ex.opTab)
       THEN CallTimeout(ex, "cbs_fbeval")
       ELSE ClickFailed(ex, TRUE)

\* the synthetic mousedown/mouseup/click on the element the selector finds
\* now, nothing without one; the 2000 ms wait is called
\*                                                dom-service 1100-1111
CbsFallbackEval ==
  /\ ex.pc = "cbs_fbeval"
  /\ UNCHANGED <<sessionVars, idleVars, engineVars, url, dom, stamp, clickTab, domService>>
  /\ \E ok \in BOOLEAN :
       LET el == Stamped(ex.opTab, ex.action.index)
       IN IF ok /\ IsOpen(ex.opTab)
            THEN /\ IF el # 0
                      THEN Deliver(ex.opTab, el, "synthetic")
                      ELSE UNCHANGED <<clicks, popupReq>>
                 /\ CallTimeout(ex, "cbs_fbpost")
            ELSE /\ UNCHANGED <<clicks, popupReq>>
                 /\ ClickFailed(ex, TRUE)

\* the 2000 ms wait settles; the page count is checked again
\*                                                dom-service 1111-1117
CbsFallbackPost ==
  /\ ex.pc = "cbs_fbpost"
  /\ UNCHANGED <<sessionVars, idleVars, engineVars, pageVars, domService>>
  /\ IF IsOpen(ex.opTab)
       THEN CheckNewPage(ex, "cbs_fbnewpage")
       ELSE ClickFailed(ex, TRUE)

\* waitForLoadState('domcontentloaded') after the fallback settles
\*                                                dom-service 1116-1127
CbsFallbackNewPage ==
  /\ ex.pc = "cbs_fbnewpage"
  /\ UNCHANGED <<sessionVars, idleVars, engineVars, pageVars, domService>>
  /\ \/ /\ IsOpen(ex.opTab) /\ ~handlerWait[ex.opTab]
        /\ CallSettle(ex)
     \/ /\ ~IsOpen(ex.opTab) \/ handlerWait[ex.opTab]
        /\ ClickFailed(ex, TRUE)

\* the caller takes the settled promise; the next execute() starts from
\* here.  The record of the clicks of the action ends with it, and a tab
\* the action's click asked for that has not opened by now never opens.
ExecConsume ==
  /\ ex.pc \in {"returned", "threw"}
  /\ ex' = ExIdle
  /\ result' = NoResult
  /\ clicks' = <<>>
  /\ clickTab' = 0
  /\ popupReq' = 0
  /\ UNCHANGED <<sessionVars, idleVars, engineVars, url, dom, stamp, domService>>

ClickBySelector ==
  \/ CbsSelector
  \/ CbsStable
  \/ CbsClick
  \/ CbsPost
  \/ CbsNewPage
  \/ CbsFallbackWait
  \/ CbsFallbackEval
  \/ CbsFallbackPost
  \/ CbsFallbackNewPage

\* ActionExecutor.execute, one step per await           executor.ts 20-130
Execute ==
  \/ \E a \in Actions : ExecStart(a)
  \/ Goto1
  \/ Goto2
  \/ GotoSettle
  \/ Validate
  \/ ScrollGet
  \/ ScrollDo
  \/ GetEl
  \/ TypeBySelector
  \/ ClickBySelector
  \/ Settle
  \/ Shot
  \/ PageState
  \/ Formatted
  \/ FailShot
  \/ FailPageState
  \/ FailFormatted
  \/ ExecConsume

\* ---------------------------------------------------- page events (exec)
\* the browser opens the tab a click on a target="_blank" link asked for
PopupOpen ==
  /\ popupReq # 0
  /\ IsOpen(popupReq)
  /\ NextTab \in Tabs
  /\ NumTabs <= MaxPopups
  /\ CreateTab(NextTab, tabCtx[popupReq])
  /\ clickTab' = NextTab
  /\ popupReq' = 0
  /\ UNCHANGED <<browser, context, page, launched, newPages, ctxHandler,
                 closeHandler, url, dom, stamp, clicks>>

\* a tab closes: its document is gone with it
TabGone(t) ==
  /\ TabClose(t)
  /\ url' = [url EXCEPT ![t] = NoUrl]
  /\ dom' = [dom EXCEPT ![t] = <<>>]
  /\ stamp' = [stamp EXCEPT ![t] = <<>>]
  /\ popupReq' = IF popupReq = t THEN 0 ELSE popupReq
  /\ UNCHANGED <<clickTab, clicks>>

\* the page removes one of its interactive elements
DomRemove(e) ==
  /\ \E t \in MutableTabs :
       /\ IsOpen(t)
       /\ InSeq(e, dom[t])
       /\ dom' = [dom EXCEPT ![t] = RemoveElem(dom[t], e)]
  /\ UNCHANGED <<url, stamp, popupReq, clickTab, clicks>>

\* ------------------------------------------------- ActionExecutor.cleanup
\* executor.ts 132-137 and DOMService.cleanup, dom-service.ts 777-789.  The
\* awaits of getCurrentPage (398-404) settle without I/O; page.evaluate is
\* the one await at which events interleave.
\* cleanup() up to page.evaluate: nothing to do without a DOMService;
\* getCurrentPage throws when no tab is active; the evaluate is skipped when
\* no highlighting capture was made
EngineCleanupCall ==
  /\ engine.pc = "idle"
  /\ IF ~domService
       THEN /\ engine' = [pc |-> "returned", tab |-> 0]
            /\ UNCHANGED domService
       ELSE IF page = 0
         THEN /\ engine' = [pc |-> "threw", tab |-> 0]
              /\ UNCHANGED domService
         ELSE IF highlightOverlayEnabled
           THEN /\ engine' = [pc |-> "evaluate", tab |-> page]
                /\ UNCHANGED domService
           ELSE /\ engine' = [pc |-> "returned", tab |-> 0]
                /\ domService' = FALSE
  /\ UNCHANGED <<sessionVars, idleVars, pageVars, ex, result,
                 highlightOverlayEnabled>>

\* page.evaluate settles: the overlays and the data-element-index
\* attributes are removed, `this.highlightOverlayEnabled = false`,
\* `this.domService = null`; or the evaluate rejects               780-787
EngineCleanupEval ==
  /\ engine.pc = "evaluate"
  /\ \E ok \in BOOLEAN :
       IF ok /\ IsOpen(engine.tab)
         THEN /\ stamp' = [stamp EXCEPT ![engine.tab] = <<>>]
              /\ highlightOverlayEnabled' = FALSE
              /\ domService' = FALSE
              /\ engine' = [pc |-> "returned", tab |-> 0]
         ELSE /\ engine' = [pc |-> "threw", tab |-> 0]
              /\ UNCHANGED <<stamp, highlightOverlayEnabled, domService>>
  /\ UNCHANGED <<sessionVars, idleVars, ex, result, url, dom, popupReq,
                 clickTab, clicks>>

EngineCleanup ==
  \/ EngineCleanupCall
  \/ EngineCleanupEval

\* --------------------------------------------------------------- SpecExec
\* the session as initialize() leaves it on its first path (894-931), or a
\* session never initialized
SessionStarts(up) ==
  /\ browser = IF up THEN 1 ELSE 0
  /\ context = IF up THEN 1 ELSE 0
  /\ page = IF up THEN 1 ELSE 0
  /\ pages = IF up THEN <<1, 1>> ELSE <<>>
  /\ launched = IF up THEN 1 ELSE 0
  /\ newPages = IF up THEN 1 ELSE 0
  /\ ctxHandler = [b \in Browsers |-> up /\ b = 1]
  /\ tabCtx = [t \in Tabs |-> IF up /\ t = 1 THEN 1 ELSE 0]
  /\ tabState = [t \in Tabs |-> IF up /\ t = 1 THEN "open" ELSE "none"]
  /\ closeHandler = [t \in Tabs |-> up /\ t = 1]
  /\ initPc = [c \in Callers |-> IF up /\ c = 1 THEN "returned" ELSE "idle"]
  /\ initRetPage = [c \in Callers |-> IF up /\ c = 1 THEN 1 ELSE 0]
  /\ handlerWait = [t \in Tabs |-> FALSE]
  /\ initBrowser = [c \in Callers |-> 0]
  /\ initTab = [c \in Callers |-> 0]
  /\ InitPages
  /\ InitExecutor
  /\ cl = ClIdle

InitExec ==
  /\ \E up \in BOOLEAN : SessionStarts(up)
  /\ InitLib

\* An event that follows the settling of execute()'s promise is taken after
\* the caller has taken the promise: the two steps commute, and the settled
\* state is then exactly what the caller receives.
Running == ex.pc \notin {"returned", "threw"}

PageEvent ==
  \/ Running /\ PopupOpen /\ UNCHANGED <<initVars, execVars, libVars>>
  \/ \E t \in Tabs :
       Running /\ TabLoaded(t) /\ UNCHANGED <<initVars, pageVars, execVars, libVars>>
  \/ \E t \in Tabs : Running /\ TabGone(t) /\ UNCHANGED <<initVars, execVars, libVars>>
  \/ \E e \in Volatile :
       Running /\ DomRemove(e) /\ UNCHANGED <<sessionVars, idleVars, execVars>>

NextExec ==
  \/ Execute
  \/ PageEvent

SpecExec == InitExec /\ [][NextExec]_vars

\* execute() and one cleanup() of the executor, in any interleaving
NextEngine ==
  \/ Execute
  \/ PageEvent
  \/ EngineCleanup

SpecEngine == InitExec /\ [][NextEngine]_vars

\* ------------------------------------------------------------ SpecSession
InitSession ==
  /\ browser = 0 /\ context = 0 /\ page = 0 /\ pages = <<>>
  /\ launched = 0 /\ newPages = 0
  /\ ctxHandler = [b \in Browsers |-> FALSE]
  /\ tabCtx = [t \in Tabs |-> 0]
  /\ tabState = [t \in Tabs |-> "none"]
  /\ handlerWait = [t \in Tabs |-> FALSE]
  /\ closeHandler = [t \in Tabs |-> FALSE]
  /\ initPc = [c \in Callers |-> "idle"]
  /\ initBrowser = [c \in Callers |-> 0]
  /\ initTab = [c \in Callers |-> 0]
  /\ initRetPage = [c \in Callers |-> 0]
  /\ InitPages
  /\ InitExecutor
  /\ cl = ClIdle
  /\ InitLib

TabEvent ==
  \/ \E t \in Tabs : TabOpen(t) /\ UNCHANGED <<initVars, pageVars, execVars, libVars>>
  \/ \E t \in Tabs : TabLoaded(t) /\ UNCHANGED <<initVars, pageVars, execVars, libVars>>
  \/ \E t \in Tabs : TabClose(t) /\ UNCHANGED <<initVars, pageVars, execVars, libVars>>

NextSession ==
  \/ \E c \in Callers : Initialize(c)
  \/ TabEvent

SpecSession == InitSession /\ [][NextSession]_vars

\* ------------------------------------------------------------ SpecCleanup
\* cleanup() on a session as initialize() left it, among the tab events
NextCleanup ==
  \/ Cleanup
  \/ TabEvent

SpecCleanup == InitExec /\ [][NextCleanup]_vars

\* ================================================================= claims

\* some initialize() has returned without error and none is in flight
Initialized ==
  /\ \E c \in Callers : initPc[c] = "returned"
  /\ \A c \in Callers : initPc[c] \in {"idle", "returned", "threw"}

OpenTabs == {t \in Tabs : tabState[t] = "open"}

TrackedOpen == {t \in OpenTabs : InSeq(t, pages)}

\* the most recently opened tab among those still open, 0 if none
MostRecentOpen ==
  IF OpenTabs = {} THEN 0 ELSE CHOOSE t \in OpenTabs : \A u \in OpenTabs : u <= t

\* C4: after a successful initialize(), whatever tabs have opened and closed
\* since, `page` is null only if no tracked tab is open, and otherwise is a
\* tracked tab that has not been closed.
C4_ActiveTabValid ==
  Initialized =>
    IF page = 0
      THEN TrackedOpen = {}
      ELSE InSeq(page, pages) /\ tabState[page] = "open"

\* C5: when the active tab closes, the active tab becomes the most recently
\* opened tab still open (null if none); when another tab closes, the active
\* tab does not change.
C5_ClosePromotes ==
  [][\A t \in Tabs :
       (Initialized /\ tabState[t] = "open" /\ tabState'[t] = "closed") =>
         IF page = t THEN page' = MostRecentOpen' ELSE page' = page]_vars

\* C6: after a successful initialize() by either path, every tab the context
\* has opened is tracked while it is open, and no closed tab is tracked
\* (whether it closed before or after it finished loading).
C6_TabsTracked ==
  Initialized =>
    \A t \in Tabs :
      /\ tabState[t] = "open" => InSeq(t, pages)
      /\ tabState[t] = "closed" => ~InSeq(t, pages)

\* C8: any number of initialize() calls, sequential or overlapping, launch
\* no more than one browser and open no more than one tab.
C8_InitializeOnce == launched <= 1 /\ newPages <= 1

\* C9: whenever initialize() returns without error, this.page is non-null;
\* stated for the calls of one caller made one after the other (the other
\* caller never calls), which covers a call after every tab has closed and a
\* call after an earlier one failed part-way.
C9_ReturnsWithActiveTab ==
  \A c \in Callers :
    (initPc[c] = "returned" /\ \A d \in Callers \ {c} : initPc[d] = "idle")
      => initRetPage[c] # 0

\* ------------------------------------------------ DOMService.getPageState
\* dom-service.ts 406-596.  The page under capture is a document of
\* elements; an element is what the capture reads of it: tag, attributes,
\* computed style, bounding rectangle, text.
MaxHead == 2
MaxCaptures == 2
\* `.slice(0, 50)`
MaxSnapshot == 50
\* window.innerHeight; every element lies within the window's width
InnerHeight == 600

El(tag, type, role, onclick, jsaction, href, display, visibility, opacity, width, height, top, zIndex, text) ==
  [tag |-> tag, type |-> type, role |-> role, onclick |-> onclick,
   jsaction |-> jsaction, href |-> href, display |-> display,
   visibility |-> visibility, opacity |-> opacity, width |-> width,
   height |-> height, top |-> top, zIndex |-> zIndex, text |-> text]

\* a link in the viewport
Link ==
  El("a", "", "", "", "", "/home", "inline", "visible", "1", 80, 20, 10,
     "auto", "Home")
\* a link below the fold, raised by its z-index
LinkBelow ==
  El("a", "", "", "", "", "/more", "inline", "visible", "1", 80, 20, 900,
     "5", "More")
Button ==
  El("button", "submit", "", "", "", "", "inline-block", "visible", "0.5",
     60, 30, 40, "2", "Go")
\* <body onclick=...>: the element the overlays are appended to
Body ==
  El("body", "", "", "toggle()", "", "", "block", "visible", "1", 800, 600,
     0, "auto", "Menu")
\* candidates that are not visible: one for each test of isElementVisible
HiddenButton ==
  El("button", "submit", "", "", "", "", "none", "visible", "1", 0, 0, 0,
     "auto", "Hidden")
InvisibleInput ==
  El("input", "text", "", "", "", "", "inline-block", "hidden", "1", 120, 20,
     60, "auto", "")
ClearLink ==
  El("a", "", "", "", "", "/track", "inline", "visible", "0", 80, 20, 70,
     "auto", "Track")
EmptyLink ==
  El("a", "", "", "", "", "/anchor", "inline", "visible", "1", 0, 0, 80,
     "auto", "")
\* selected by the query, not interactive for isInteractiveElement
Checkbox ==
  El("div", "", "checkbox", "", "", "", "block", "visible", "1", 20, 20, 90,
     "1", "Agree")
\* interactive for isInteractiveElement, not selected by the query
HoverSpan ==
  El("span", "", "", "", "mouseover:tip", "", "inline", "visible", "1", 40,
     20, 100, "auto", "Tip")

Pool ==
  {Link, LinkBelow, Button, Body, HiddenButton, InvisibleInput, ClearLink,
   EmptyLink, Checkbox, HoverSpan}

\* the jsaction values of the pool that contain "click"
JsactionClick == {}

\* documents: a head of up to MaxHead elements, the body (if any) first,
\* followed by no or MaxSnapshot further links
Heads ==
  UNION {{h \in [1..n -> Pool] : \A i \in 2..n : h[i] # Body} : n \in 1..MaxHead}
Filler(n) == [i \in 1..n |-> Link]
Documents == {h \o Filler(n) : h \in Heads, n \in {0, MaxSnapshot}}

Min(a, b) == IF a <= b THEN a ELSE b

\* 416-425
isElementVisible(e) ==
  /\ e.display # "none"
  /\ e.visibility # "hidden"
  /\ e.opacity # "0"
  /\ e.width > 0
  /\ e.height > 0

\* 427-432
isInViewport(e) == e.top >= 0 /\ e.top + e.height <= InnerHeight

\* 442-460
isInteractiveElement(e) ==
  \/ e.tag \in {"a", "button", "input", "select", "textarea"}
  \/ e.role \in {"button", "link", "menuitem", "option"}
  \/ e.onclick # "" \/ e.jsaction # ""
  \/ /\ e.tag = "input"
     /\ e.type \in {"text", "search", "number", "email", "tel", "url"}

\* the selector of document.querySelectorAll, 469-475, on the attributes
\* the pool's elements have
MatchesSelector(e) ==
  \/ e.tag \in {"a", "button", "input", "select", "textarea"}
  \/ e.role \in {"button", "link", "checkbox", "radio", "switch", "menuitem",
                 "option", "listbox", "combobox", "listitem"}
  \/ e.jsaction \in JsactionClick
  \/ e.onclick # ""

\* `parseInt(style.zIndex) || 0`: NaN ('auto') and 0 both give 0
ZValue(e) ==
  CASE e.zIndex = "auto" -> 0
    [] e.zIndex = "1" -> 1
    [] e.zIndex = "2" -> 2
    [] e.zIndex = "5" -> 5

\* the comparator of the sort, 484-507
Compare_ascending(a, b) ==
  IF isInViewport(a) # isInViewport(b)
    THEN (IF isInViewport(a) THEN -1 ELSE 1)
    ELSE IF ZValue(a) # ZValue(b)
      THEN ZValue(a) - ZValue(b)
      ELSE a.top - b.top

Compare(a, b) ==
  IF isInViewport(a) # isInViewport(b)
    THEN (IF isInViewport(a) THEN -1 ELSE 1)
    ELSE IF ZValue(a) # ZValue(b)
      THEN ZValue(b) - ZValue(a)
      ELSE a.top - b.top

Front(s) == SubSeq(s, 1, Len(s) - 1)

\* Array.prototype.sort is stable: x, which follows the elements of s in
\* the array, goes after every one of them that does not compare greater
RECURSIVE InsertSorted(_, _, _)
InsertSorted(d, s, x) ==
  IF s = <<>> \/ Compare(d[Last(s)], d[x]) <= 0
    THEN Append(s, x)
    ELSE Append(InsertSorted(d, Front(s), x), Last(s))

\* s[lo..hi] inserted into acc one after the other, the lower half first
\* (the test on left makes it be computed before the upper half is taken)
RECURSIVE InsertRange(_, _, _, _, _)
InsertRange(d, s, acc, lo, hi) ==
  IF lo > hi THEN acc
  ELSE IF lo = hi THEN InsertSorted(d, acc, s[lo])
  ELSE LET mid == (lo + hi) \div 2
           left == InsertRange(d, s, acc, lo, mid)
       IN IF Len(left) >= Len(acc)
            THEN InsertRange(d, s, left, mid + 1, hi)
            ELSE left

Sort(d, s) == InsertRange(d, s, <<>>, 1, Len(s))

\* `.slice(0, 50)`                                                     508
Slice_none(s) == s

Slice(s) == SubSeq(s, 1, Min(MaxSnapshot, Len(s)))

\* the filter of 479-483
Qualifies_sized(e) == e.width > 0 /\ e.height > 0 /\ isInteractiveElement(e)

Qualifies(e) == isElementVisible(e) /\ isInteractiveElement(e)

\* the elements of document d, as positions in d: selected (469-475),
\* filtered (478-483), sorted (484-507), cut (508)
prioritizedElements(d) ==
  LET elements == SelectSeq([p \in 1..Len(d) |-> p],
                            LAMBDA p : MatchesSelector(d[p]))
  IN Slice(Sort(d, SelectSeq(elements, LAMBDA p : Qualifies(d[p]))))

\* `index + 1`, index being the position in the array, from 0    518, 552
IndexOf_zero(i) == i

IndexOf(i) == i + 1

\* document.querySelectorAll('.element-highlight').forEach(el => el.remove())
RemoveHighlights_keep(ov) == ov

RemoveHighlights(ov) == <<>>

\* the removal of every data-element-index attribute              464-466
RemoveIndices_keep(m) == m

RemoveIndices(m) == [p \in 1..Len(m) |-> 0]

\* the labels of the overlays in the body once the first k elements of pr
\* went through the map: those that were there and one per visible element
\*                                                                 521-549
OverlaysAfter(ov, d, pr, k) ==
  LET vis == SelectSeq([j \in 1..k |-> j],
                       LAMBDA j : isElementVisible(d[pr[j]]))
  IN ov \o [n \in 1..Len(vis) |-> IndexOf(vis[n] - 1)]

\* the data-element-index attributes once every element of pr is stamped
\*                                                                     518
Stamp(m, d, pr) ==
  [p \in 1..Len(d) |->
     IF \E k \in 1..Len(pr) : pr[k] = p
       THEN IndexOf((CHOOSE k \in 1..Len(pr) : pr[k] = p) - 1)
       ELSE m[p]]

\* 434-440, read at 556 after the stamping of 518
getElementAttributes(e, mark) ==
  [role |-> e.role, onclick |-> e.onclick, jsaction |-> e.jsaction,
   href |-> e.href, type |-> e.type, dataElementIndex |-> mark]

\* element.textContent: the text of the element and, for the body, of the
\* overlay labels appended to it so far                                555
TextContent(e, ov) ==
  [own |-> e.text, labels |-> IF e.tag = "body" THEN ov ELSE <<>>]

\* the record of 551-566 for the element at position p of d, at position
\* i (from 0) of the array; el is the element the record is of
ElementInfo(d, p, i, ov) ==
  [index |-> IndexOf(i), el |-> p, tag |-> d[p].tag, type |-> d[p].type,
   text |-> TextContent(d[p], ov),
   attributes |-> getElementAttributes(d[p], IndexOf(i)),
   isVisible |-> isElementVisible(d[p]), inViewport |-> isInViewport(d[p]),
   zIndex |-> ZValue(d[p]), top |-> d[p].top]

\* 510-567
elementInfos(d, pr, ov) ==
  [k \in 1..Len(pr) |-> ElementInfo(d, pr[k], k - 1, OverlaysAfter(ov, d, pr, k))]

\* getPageState(highlightElements) on the active tab's document: the
\* styles are injected once (410-413), then the evaluate of 415-582
GetPageState(highlightElements) ==
  /\ page # 0
  /\ Len(snaps) < MaxCaptures
  /\ highlightOverlayEnabled' = (highlightOverlayEnabled \/ highlightElements)
  /\ LET ov == RemoveHighlights(overlays)
         pr == prioritizedElements(doc)
     IN /\ overlays' = OverlaysAfter(ov, doc, pr, Len(pr))
        /\ marks' = Stamp(RemoveIndices(marks), doc, pr)
        /\ snaps' = Append(snaps, [elements |-> elementInfos(doc, pr, ov),
                                   mutated |-> mutated])
  /\ mutated' = FALSE
  /\ UNCHANGED <<doc, resolverVars, laterVars>>
  /\ UNCHANGED <<sessionVars, initVars, pageVars, cl, domService, ex, result,
                 engine>>

\* the page hides its first element (display: none): a page-initiated
\* mutation
PageHide ==
  /\ Len(snaps) < MaxCaptures
  /\ isElementVisible(doc[1])
  /\ doc' = [doc EXCEPT ![1] = [@ EXCEPT !.display = "none", !.width = 0,
                                          !.height = 0]]
  /\ mutated' = TRUE
  /\ UNCHANGED <<marks, overlays, snaps, resolverVars, laterVars>>
  /\ UNCHANGED <<sessionVars, initVars, pageVars, cl, execVars>>

InitCapture ==
  /\ SessionStarts(TRUE)
  /\ doc \in Documents
  /\ marks = [p \in 1..Len(doc) |-> 0]
  /\ overlays = <<>>
  /\ snaps = <<>>
  /\ mutated = FALSE
  /\ InitNoResolver
  /\ InitLater

NextCapture ==
  \/ \E highlightElements \in BOOLEAN : GetPageState(highlightElements)
  \/ PageHide

SpecCapture == InitCapture /\ [][NextCapture]_vars

\* ------------------------------------------ DOMService.createStableSelector
\* dom-service.ts 617-645.  A string is the sequence of its characters; the
\* fixed pieces of the template literals are single items.
Ids == {<<>>, <<"m", "a", "i", "n">>, <<"a", ".", "b">>, <<"1", "a">>}
Hrefs == {<<>>, <<"#", "t", "o", "p">>, <<"/", "h", "o", "m", "e">>}
Names == {<<>>, <<"q">>}
Classes == {<<>>, <<"b", "t", "n">>}
Roles == {<<>>, <<"t", "a", "b">>}
Texts == {<<>>, <<"G", "o">>}

\* the attribute mappings createStableSelector is called with; an absent
\* attribute and an empty one are both the empty string (both falsy)
AttributeMaps ==
  [id : Ids, href : Hrefs, name : Names, class : Classes, role : Roles,
   textContent : Texts]

Digits == {"0", "1", "2", "3", "4", "5", "6", "7", "8", "9"}
Letters == {"a", "b", "i", "m", "n"}

\* CSS.escape on one character: a leading digit becomes its code point
\* escape, a character that is no identifier character gets a backslash
EscapeChar(c, first) ==
  IF first /\ c \in Digits THEN <<"\\", "3", c, " ">>
  ELSE IF c \in Letters \cup Digits \cup {"-", "_"} THEN <<c>>
  ELSE <<"\\", c>>

RECURSIVE CssEscape(_, _)
CssEscape(str, first) ==
  IF str = <<>> THEN <<>>
  ELSE EscapeChar(Head(str), first) \o CssEscape(Tail(str), FALSE)

\* str.startsWith('#')
StartsWithHash(str) == Len(str) > 0 /\ str[1] = "#"

\* `#${CSS.escape(attributes.id)}`                                      624
IdSelector(a) == <<"#">> \o CssEscape(a.id, TRUE)

\* `a[href="${attributes.href}"]`                                       629
HrefSelector(a) == <<"a[href=\"">> \o a.href \o <<"\"]">>

\* `[${attr}="${attributes[attr]}"]`                                    635
AttrPart(attr, value) == <<"[", attr, "=\"">> \o value \o <<"\"]">>

\* `:contains("${attributes['text-content']}")`                        641
ContainsPart(text) == <<":contains(\"">> \o text \o <<"\")">>

priorityAttrs == <<"id", "href", "name", "class", "role">>

\* the loop of 633-637 from the i-th priority attribute on
RECURSIVE AttrParts(_, _)
AttrParts(a, i) ==
  IF i > Len(priorityAttrs) THEN <<>>
  ELSE LET attr == priorityAttrs[i]
       IN (IF a[attr] # <<>> /\ attr # "data-element-index"
             THEN AttrPart(attr, a[attr])
             ELSE <<>>) \o AttrParts(a, i + 1)

\* 633-644: the parts of the loop, then the text part if there is text
JoinedParts(a) ==
  AttrParts(a, 1)
    \o (IF a.textContent # <<>> THEN ContainsPart(a.textContent) ELSE <<>>)

\* createStableSelector(attributes).  CSS is a global of browsers: where
\* the runtime has none, evaluating CSS.escape throws a ReferenceError
StableSelector(a, css) ==
  IF a.id # <<>>
    THEN (IF css THEN [pc |-> "returned", value |-> IdSelector(a)]
                 ELSE [pc |-> "threw", value |-> <<>>])
  ELSE IF a.href # <<>> /\ ~StartsWithHash(a.href)
    THEN [pc |-> "returned", value |-> HrefSelector(a)]
  ELSE [pc |-> "returned", value |-> JoinedParts(a)]

CreateStableSelector ==
  /\ selector.pc = "idle"
  /\ selector' = StableSelector(attributes, cssGlobal)
  /\ UNCHANGED <<cssGlobal, attributes, captureVars, laterVars>>
  /\ UNCHANGED <<sessionVars, initVars, pageVars, execVars, cl>>

InitResolver ==
  /\ SessionStarts(FALSE)
  /\ InitNoCapture
  /\ InitLater
  /\ cssGlobal \in BOOLEAN
  /\ attributes \in AttributeMaps
  /\ selector = NoSelector

NextResolver == CreateStableSelector

SpecResolver == InitResolver /\ [][NextResolver]_vars

\* --------------------------------------------------------- executor claims
Returned == ex.pc = "returned"

\* C1: execute never throws: whatever the action and whichever primitive
\* fails, also while the state after a failure is collected, its promise is
\* never rejected and what it settles with is a result with success true or
\* false.
C1_ExecuteNeverThrows ==
  /\ ex.pc # "threw"
  /\ result.status # "threw"
  /\ Returned => result.status = "returned" /\ result.success \in BOOLEAN

\* C1 witness: execute returned a failure although collecting the state
\* after the failure failed as well.
C1_Witness ==
  /\ Returned
  /\ ~result.success
  /\ ex.fault
  /\ result.screenshot = NoShot

\* C2: for every action but Complete, succeeded or failed, a result returned
\* while no primitive failed on its tab carries a currentUrl, a screenshot and
\* an element snapshot, all taken after the action was attempted.
C2_ResultCarriesState ==
  (Returned /\ ex.action.type # "complete" /\ ~ex.fault) =>
    /\ result.currentUrl # NoUrl
    /\ result.screenshot # NoShot /\ result.screenshot.fresh
    /\ result.pageState # NoState /\ result.pageState.fresh

\* C2 witness: a failed action on a usable tab returned with all three.
C2_Witness ==
  /\ Returned
  /\ ex.action.type \in {"goto", "click", "type"}
  /\ ~result.success
  /\ ~ex.fault
  /\ result.pageState.fresh

C7_NewTabUrl ==
  (Returned /\ ex.action.type = "click" /\ result.success /\ ~ex.fault
     /\ ex.sawNewPage /\ clickTab # 0 /\ IsOpen(clickTab)) =>
    result.currentUrl = url[clickTab]

GotoAttempts == Len(ex.gotoLog)

GotoFailed(i) == ~ex.gotoLog[i][3]

\* C10 as stated: goto raises an error only if both attempts failed.
C10_ErrorOnlyAfterTwoAttempts ==
  ex.gotoOutcome = "error" =>
    GotoAttempts = 2 /\ GotoFailed(1) /\ GotoFailed(2)

\* C10: with a tab active at the call, goto first navigates with the
\* network-idle wait; when that fails and a tab is still active it navigates
\* once more with the DOM-content-loaded wait and then lets 2000 ms pass; it
\* never navigates a third time; it raises an error only without an active
\* tab, at the call or at the second attempt, or when both attempts failed;
\* a URL that never reaches network idle but reaches DOM-ready is navigated
\* successfully as long as no tab goes away under it.
C10_GotoAttempts ==
  /\ GotoAttempts <= 2
  /\ GotoAttempts >= 1 => ex.gotoLog[1][2] = "networkidle"
  /\ GotoAttempts = 2 => GotoFailed(1) /\ ex.gotoLog[2][2] = "domcontentloaded"
  /\ ex.gotoOutcome = "ok" =>
       /\ GotoAttempts >= 1 /\ ~GotoFailed(GotoAttempts)
       /\ GotoAttempts = 2 => ex.gotoSettled
  /\ ex.gotoOutcome = "error" =>
       \/ GotoAttempts = 0 /\ ex.error = "Browser not initialized"
       \/ GotoAttempts = 1 /\ GotoFailed(1)
            /\ ex.error = "Cannot read properties of null"
       \/ GotoAttempts = 2 /\ GotoFailed(1) /\ GotoFailed(2)
  /\ (ex.action.url = "site-polling" /\ ex.gotoOutcome = "error") => ex.fault

\* C10 witness: the URL that never reaches network idle was navigated by the
\* second attempt.
C10_Witness ==
  /\ ex.action.url = "site-polling"
  /\ ex.gotoOutcome = "ok"
  /\ GotoAttempts = 2
  /\ ex.gotoSettled

\* ------------------------------------------------------------ SpecCleanup
\* tabs before the context, the context before the browser
CloseRank(kind) ==
  CASE kind = "tab" -> 1 [] kind = "context" -> 2 [] kind = "browser" -> 3

\* C11: when PlaywrightService.cleanup() returns, close() has been called on
\* every tab that was tracked at the call and still open, the closes were
\* called tabs first, then the context, then the browser, and this.page, this.context
\* and this.browser are all null.
C11_CleanupClosesAll ==
  cl.pc = "returned" =>
    /\ cl.passed = {}
    /\ \A i, j \in 1..Len(cl.order) :
         i < j => CloseRank(cl.order[i]) < CloseRank(cl.order[j])
    /\ cl.retPage = 0 /\ context = 0 /\ browser = 0

\* ------------------------------------------------------------- SpecEngine
\* C12: ActionExecutor.cleanup() completes without throwing in whatever
\* state it is called: before any action, while an action is in flight,
\* after the active tab has closed.
C12_EngineCleanupNeverThrows == engine.pc # "threw"

\* ------------------------------------------------------------ SpecCapture
\* the records of the latest snapshot; the state a capture leaves, the page
\* not having changed since
Snapshot == snaps[Len(snaps)].elements
Captured == Len(snaps) > 0 /\ ~mutated
Retained == {Snapshot[k].el : k \in 1..Len(Snapshot)}

\* C13: the records of a snapshot carry the indices 1..N in list order, and
\* the element that carries data-element-index = k after the capture is the
\* element record k is of.
C13_IndicesAreStamps ==
  Captured =>
    \A k \in 1..Len(Snapshot) :
      /\ Snapshot[k].index = k
      /\ {p \in 1..Len(doc) : marks[p] = k} = {Snapshot[k].el}

\* a full snapshot whose first record is not the first element of the page
C13_Witness ==
  Captured /\ Len(Snapshot) = MaxSnapshot /\ Snapshot[1].el > 1

C15_PriorityOrder ==
  Len(snaps) > 0 =>
    \A i, j \in 1..Len(Snapshot) :
      i < j =>
        LET a == Snapshot[i]
            b == Snapshot[j]
        IN /\ a.inViewport \/ ~b.inViewport
           /\ a.inViewport = b.inViewport => a.zIndex >= b.zIndex
           /\ a.inViewport = b.inViewport /\ a.zIndex = b.zIndex
                => a.top <= b.top

\* a snapshot ordered by z-index and by top against the document order
C15_Witness ==
  /\ Len(snaps) > 0
  /\ Len(Snapshot) > 2
  /\ Snapshot[1].el > Snapshot[2].el
  /\ Snapshot[1].zIndex > Snapshot[2].zIndex
  /\ Snapshot[2].zIndex = Snapshot[3].zIndex
  /\ Snapshot[2].top < Snapshot[3].top

\* the elements the capture's filter lets through
Qualifying ==
  {p \in 1..Len(doc) :
     /\ MatchesSelector(doc[p])
     /\ isElementVisible(doc[p])
     /\ isInteractiveElement(doc[p])}

\* a ranks strictly before b in the priority order
RanksBefore(a, b) ==
  \/ isInViewport(a) /\ ~isInViewport(b)
  \/ /\ isInViewport(a) = isInViewport(b)
     /\ \/ ZValue(a) > ZValue(b)
        \/ ZValue(a) = ZValue(b) /\ a.top < b.top

\* C16: a snapshot never has more than 50 records; when more than 50
\* elements qualify it has exactly 50, and no element left out ranks
\* strictly before one that is retained.
C16_CapOfFifty ==
  /\ Len(snaps) > 0 => Len(Snapshot) <= MaxSnapshot
  /\ Captured /\ Cardinality(Qualifying) > MaxSnapshot =>
       /\ Len(Snapshot) = MaxSnapshot
       /\ \A p \in Qualifying \ Retained :
            \A q \in Retained : ~RanksBefore(doc[p], doc[q])

\* more than 50 qualify and the first element of the page is left out
C16_Witness ==
  /\ Captured
  /\ Cardinality(Qualifying) > MaxSnapshot
  /\ 1 \in Qualifying \ Retained

\* what C17 compares of a snapshot
Content(elements) ==
  [k \in 1..Len(elements) |->
     [index |-> elements[k].index, tag |-> elements[k].tag,
      text |-> elements[k].text, attributes |-> elements[k].attributes]]

\* C17: two successive captures with no page-initiated mutation between
\* them return the same records (index, tag, text, attributes), although
\* the first one stamped attributes and appended overlays.
C17_CaptureIdempotent ==
  \A i \in 2..Len(snaps) :
    ~snaps[i].mutated =>
      Content(snaps[i].elements) = Content(snaps[i - 1].elements)

\* two captures in a row of a page whose body is itself a record
C17_Witness ==
  /\ Len(snaps) >= 2
  /\ ~snaps[2].mutated
  /\ Len(snaps[2].elements) >= 2
  /\ \E k \in 1..Len(snaps[2].elements) : snaps[2].elements[k].tag = "body"

\* C18: after a capture, the number of overlay nodes equals the number of
\* records of that capture's snapshot, and the elements that carry
\* data-element-index are exactly the elements of its records, however
\* many captures came before.
C18_NoAccumulation ==
  Captured =>
    /\ Len(overlays) = Len(Snapshot)
    /\ {p \in 1..Len(doc) : marks[p] # 0} = Retained

\* a second capture, taken after the page hid an element the first one
\* had stamped
C18_Witness ==
  /\ Len(snaps) = 2
  /\ ~mutated
  /\ snaps[2].mutated
  /\ Len(Snapshot) >= 1
  /\ Len(Snapshot) < Len(snaps[1].elements)

\* ----------------------------------------------------------- SpecResolver
\* C19: for every attribute mapping with a non-empty id, createStableSelector
\* returns the ID selector of that id, whatever other attributes are
\* present; it never gives an href-based selector when an id exists.
C19_IdFirst ==
  selector.pc # "idle" /\ attributes.id # <<>> =>
    /\ selector.pc = "returned"
    /\ selector.value = <<"#">> \o CssEscape(attributes.id, TRUE)

\* x occurs in s as a run of consecutive items
Occurs(x, s) ==
  \E i \in 1..(Len(s) - Len(x) + 1) : SubSeq(s, i, i + Len(x) - 1) = x

\* C20: the selector createStableSelector returns is that of the first
\* applicable step of: the id; the href when present and not starting with
\* '#', as an anchor attribute-equality selector; a compound selector of
\* name, class and role only; a text containment match.  A fragment-only
\* href never occurs in it, and the text containment part occurs only
\* when none of id, usable href, name, class, role is present.
C20_FourStepPriority ==
  selector.pc = "returned" =>
    LET a == attributes
        usableHref == a.href # <<>> /\ ~StartsWithHash(a.href)
        compound ==
          (IF a.name # <<>> THEN AttrPart("name", a.name) ELSE <<>>)
            \o (IF a.class # <<>> THEN AttrPart("class", a.class) ELSE <<>>)
            \o (IF a.role # <<>> THEN AttrPart("role", a.role) ELSE <<>>)
    IN /\ selector.value =
            IF a.id # <<>> THEN IdSelector(a)
            ELSE IF usableHref THEN HrefSelector(a)
            ELSE IF compound # <<>> THEN compound
            ELSE IF a.textContent # <<>> THEN ContainsPart(a.textContent)
            ELSE <<>>
       /\ StartsWithHash(a.href) => ~Occurs(a.href, selector.value)
       /\ Occurs(<<":contains(\"">>, selector.value) =>
            a.id = <<>> /\ ~usableHref /\ compound = <<>>

\* ------------------------------------------------------- clickBySelector
NativeClicks == {i \in 1..Len(clicks) : clicks[i][3] = "native"}

SyntheticClicks == {i \in 1..Len(clicks) : clicks[i][3] = "synthetic"}

\* C21: a Click's clickBySelector dispatches the synthetic
\* mousedown/mouseup/click at most once and only when the native click did
\* not reach the element, and it does not report success when neither the
\* native nor the synthetic attempt dispatched a click on an element.
C21_ClickFallbackChain ==
  (Returned /\ ex.action.type = "click") =>
    /\ Cardinality(SyntheticClicks) <= 1
    /\ SyntheticClicks # {} => NativeClicks = {}
    /\ result.success => clicks # <<>>

\* ------------------------------------------- DOMService.scrollToElement
\* dom-service.ts 673-755, and the switch cases of execute() that call it
\* (executor.ts 30-48, 65-68), on a page taller than its window.  The `top`
\* of an element is its offset in the document; what a capture reads is its
\* bounding rectangle, `top` less window.scrollY.  A smooth scroll is taken
\* to have ended when the wait that follows it is over.
MaxBody == 3
\* document.documentElement.scrollHeight
PageHeight == 1600

\* a link taller than the window
TallLink ==
  El("a", "", "", "", "", "/tall", "block", "visible", "1", 80, 700, 700,
     "auto", "Tall")
\* a button that is an icon: a role and no text
IconButton ==
  El("div", "", "button", "", "", "", "block", "visible", "1", 24, 24, 1200,
     "auto", "")

ScrollPool == {Link, LinkBelow, TallLink, Button, IconButton}

ScrollDocuments == UNION {[1..n -> ScrollPool] : n \in 1..MaxBody}

Max(a, b) == IF a >= b THEN a ELSE b

\* the scroll offsets the window can take
ClampScroll(y) == Max(0, Min(y, PageHeight - InnerHeight))

\* the document as getBoundingClientRect shows it at scroll offset y
Rendered(d, y) == [p \in 1..Len(d) |-> [d[p] EXCEPT !.top = @ - y]]

\* el.scrollIntoView({ block: 'center' })                              701
ScrollIntoView(e) == ClampScroll(e.top + (e.height \div 2) - (InnerHeight \div 2))

\* window.scrollTo({ top: Math.max(0, y - 100) })                  721-725
ScrollTo(y) == ClampScroll(Max(0, y - 100))

\* an attribute value as createStableSelector takes it: one item, none
\* when the attribute is absent or empty
Str(v) == IF v = "" THEN <<>> ELSE <<v>>

\* element.attributes with the text-content entry of 654-656, for the
\* attributes the pool's elements have
AttrsOf(e) ==
  [id |-> <<>>, href |-> Str(e.href), name |-> <<>>, class |-> <<>>,
   role |-> Str(e.role), textContent |-> Str(e.text)]

\* document.querySelector throws a SyntaxError on the empty selector and on
\* :contains(), which is no CSS pseudo-class
SelectorValid(sel) ==
  /\ sel # <<>>
  /\ \A i \in 1..Len(sel) : sel[i] # ":contains(\""

AttrValue(e, attr) ==
  CASE attr = "href" -> e.href
    [] attr = "role" -> e.role
    [] OTHER -> ""

\* the element satisfies every [attr="value"] of the selector
RECURSIVE PartsMatch(_, _)
PartsMatch(sel, e) ==
  \/ sel = <<>>
  \/ /\ Len(sel) >= 5
     /\ sel[1] = "["
     /\ AttrValue(e, sel[2]) = sel[4]
     /\ PartsMatch(SubSeq(sel, 6, Len(sel)), e)

\* element.matches(sel) for the selectors createStableSelector builds
SelectorMatches(sel, e) ==
  IF sel[1] = "a[href=\""
    THEN e.tag = "a" /\ Len(sel) = 3 /\ e.href = sel[2]
    ELSE PartsMatch(sel, e)

\* document.querySelector(sel): the first match in document order, 0: null
QuerySelector(d, sel) ==
  LET m == {p \in 1..Len(d) : SelectorMatches(sel, d[p])}
  IN IF m = {} THEN 0 ELSE CHOOSE p \in m : \A q \in m : p <= q

\* state.elements.find(e => e.index === index): the element of the capture
\* pr that carries the index, 0: null                                   650
FindIndex(pr, index) ==
  LET m == {k \in 1..Len(pr) : IndexOf(k - 1) = index}
  IN IF m = {} THEN 0 ELSE pr[CHOOSE k \in m : TRUE]

\* document.querySelector('[data-element-index="k"]'), 0: null
QueryIndex(m, k) ==
  LET s == {p \in 1..Len(m) : m[p] = k}
  IN IF s = {} THEN 0 ELSE CHOOSE p \in s : \A q \in s : p <= q

\* the capture of a getPageState at the present scroll offset
CaptureAtScroll ==
  LET r == Rendered(doc, scrollY)
      pr == prioritizedElements(r)
  IN /\ marks' = Stamp(RemoveIndices(marks), r, pr)
     /\ overlays' = OverlaysAfter(RemoveHighlights(overlays), r, pr, Len(pr))

\* what the actions on the scrollable page leave alone
ScrollFrame ==
  /\ UNCHANGED <<doc, snaps, mutated, resolverVars, typeVars, outerVars, markerVars, clientVars>>
  /\ UNCHANGED <<sessionVars, initVars, pageVars, execVars, cl>>

\* the switch case is over: a Scroll goes on to the settle wait whatever
\* scrollToElement returned (executor.ts 66-67), a Click to
\* getElementByIndex (41)
ScrollReturns(s, ret, inView) ==
  [s EXCEPT !.ret = ret, !.inView = inView,
            !.pc = IF s.action = "click" THEN "getel" ELSE "done"]

\* execute(Scroll(index)) calls scrollToElement            executor.ts 66
ScrollStart(index) ==
  /\ sc.pc = "idle"
  /\ page # 0
  /\ sc' = [ScIdle EXCEPT !.pc = "scroll_get", !.action = "scroll",
                          !.index = index]
  /\ UNCHANGED <<scrollY, marks, overlays>>
  /\ ScrollFrame

\* execute(Click(index)) up to the end of validateElement: its capture
\* names the element the index stands for             executor.ts 32-38
ClickStart(index) ==
  /\ sc.pc = "idle"
  /\ page # 0
  /\ CaptureAtScroll
  /\ LET el == FindIndex(prioritizedElements(Rendered(doc, scrollY)), index)
     IN sc' = [ScIdle EXCEPT !.pc = IF el = 0 THEN "failed" ELSE "scroll_get",
                             !.action = "click", !.index = index,
                             !.target = el]
  /\ UNCHANGED scrollY
  /\ ScrollFrame

\* scrollToElement's getElementByIndex settles: without the element false
\* is returned, else the selector and the fallback box are taken from the
\* record of this capture                                         687-694
ScrollGetElement ==
  /\ sc.pc = "scroll_get"
  /\ CaptureAtScroll
  /\ LET r == Rendered(doc, scrollY)
         el == FindIndex(prioritizedElements(r), sc.index)
         s == IF sc.action = "scroll" THEN [sc EXCEPT !.target = el] ELSE sc
     IN IF el = 0
          THEN sc' = ScrollReturns(s, "false", FALSE)
          ELSE sc' = [s EXCEPT !.pc = "scroll_into",
                               !.selector = StableSelector(AttrsOf(doc[el]), cssGlobal).value,
                               !.boxY = r[el].top]
  /\ UNCHANGED scrollY
  /\ ScrollFrame

\* the first evaluate settles: the element the selector finds is scrolled
\* to the centre of the window; a selector the browser rejects makes the
\* evaluate throw, which the catch turns into false       698-708, 748-754
ScrollEvaluate ==
  /\ sc.pc = "scroll_into"
  /\ IF ~SelectorValid(sc.selector)
       THEN /\ sc' = ScrollReturns(sc, "false", FALSE)
            /\ UNCHANGED scrollY
       ELSE LET el == QuerySelector(doc, sc.selector)
            IN /\ scrollY' = IF el = 0 THEN scrollY ELSE ScrollIntoView(doc[el])
               /\ sc' = [sc EXCEPT !.pc = "scroll_verify"]
  /\ UNCHANGED <<marks, overlays>>
  /\ ScrollFrame

\* the rectangle test of 711-716 on the element the selector finds
IsVisibleInWindow(d, y, sel) ==
  LET el == QuerySelector(d, sel)
  IN /\ el # 0
     /\ isInViewport(Rendered(d, y)[el])
     /\ d[el].width > 0 /\ d[el].height > 0

\* the 1000 ms are over and the rectangle is tested: outside the window,
\* the window is scrolled to the fallback box                     708-728
ScrollVerify ==
  /\ sc.pc = "scroll_verify"
  /\ scrollY' = IF IsVisibleInWindow(doc, scrollY, sc.selector)
                  THEN scrollY
                  ELSE ScrollTo(sc.boxY)
  /\ sc' = [sc EXCEPT !.pc = "scroll_final"]
  /\ UNCHANGED <<marks, overlays>>
  /\ ScrollFrame

\* `document.querySelector(selector) !== null`                     731-733
FinalCheck(d, y, sel) == QuerySelector(d, sel) # 0

\* the final verification: its outcome is what scrollToElement returns;
\* inView records whether the element the index named is in the window now
\*                                                                 731-747
ScrollFinal ==
  /\ sc.pc = "scroll_final"
  /\ sc' = ScrollReturns(sc,
             IF FinalCheck(doc, scrollY, sc.selector) THEN "true" ELSE "false",
             isInViewport(Rendered(doc, scrollY)[sc.target]))
  /\ UNCHANGED <<scrollY, marks, overlays>>
  /\ ScrollFrame

\* the Click's getElementByIndex settles: a capture at the scroll offset
\* the scrolling left; then clickBySelector resolves
\* [data-element-index="index"] in the page as this capture stamped it
\*                                              executor.ts 41-46, 1045
ClickResolve ==
  /\ sc.pc = "getel"
  /\ CaptureAtScroll
  /\ LET r == Rendered(doc, scrollY)
         pr == prioritizedElements(r)
     IN IF FindIndex(pr, sc.index) = 0
          THEN sc' = [sc EXCEPT !.pc = "failed"]
          ELSE sc' = [sc EXCEPT !.pc = "done",
                                !.clicked = QueryIndex(Stamp(RemoveIndices(marks), r, pr), sc.index)]
  /\ UNCHANGED scrollY
  /\ ScrollFrame

\* the action is over; the page stays as it is for the next one
ScrollConsume ==
  /\ sc.pc \in {"done", "failed"}
  /\ sc' = ScIdle
  /\ UNCHANGED <<scrollY, marks, overlays>>
  /\ ScrollFrame

InitScroll ==
  /\ SessionStarts(TRUE)
  /\ doc \in ScrollDocuments
  /\ marks = [p \in 1..Len(doc) |-> 0]
  /\ overlays = <<>>
  /\ snaps = <<>>
  /\ mutated = FALSE
  /\ InitNoResolver
  /\ InitNoScroll
  /\ InitNoType
  /\ InitOuter
  /\ InitNoMarker
  /\ InitNoClient

NextScroll ==
  \/ \E index \in 1..MaxBody : ScrollStart(index)
  \/ \E index \in 1..MaxBody : ClickStart(index)
  \/ ScrollGetElement
  \/ ScrollEvaluate
  \/ ScrollVerify
  \/ ScrollFinal
  \/ ClickResolve
  \/ ScrollConsume

SpecScroll == InitScroll /\ [][NextScroll]_vars

\* C22: scrollToElement returns true only if the element the index named is
\* within the window at the verification made after the scrolling.
C22_ScrollVerified == sc.ret = "true" => sc.inView

\* C30: the click of execute(Click(k)) is dispatched on the element that
\* held index k in the capture validateElement made when the action
\* started.
C30_ClickHitsValidated ==
  (sc.action = "click" /\ sc.pc = "done") => sc.clicked = sc.target

\* ------------------------------------------------------------- Complete
\* C23: while a Complete is executed nothing is dispatched on the page (no
\* navigation, no click) and the execute() changes nothing in the document
\* of a tab that stays open: no data-element-index attribute is set or
\* removed and no stylesheet is injected; and a Complete during which no
\* primitive failed returns success true.
C23_CompleteTouchesNothing ==
  /\ [][ex.action.type = "complete" =>
          /\ clicks' = clicks
          /\ highlightOverlayEnabled' = highlightOverlayEnabled
          /\ \A t \in Tabs :
               (IsOpen(t) /\ tabState'[t] = "open") =>
                  url'[t] = url[t] /\ stamp'[t] = stamp[t]]_vars
  /\ [](Returned /\ ex.action.type = "complete" /\ ~ex.fault => result.success)

\* ---------------------------------------- PlaywrightService.typeBySelector
\* dom-service.ts 1130-1203, one step per await, on the one element the
\* selector names.  A string is the sequence of its characters.
MaxText == 2

\* the characters of the text to type and of the value found in the element
NewChars == {"a", "b"}
OldChars == {"x"}

Texts_typed == UNION {[1..n -> NewChars] : n \in 1..MaxText}

StartValues == {<<>>, <<"x">>}

\* a single-line <input>, a <textarea>
FieldKinds == {"input", "textarea"}

\* the outer catch: `throw new Error('Failed to type text into element...')`
\*                                                              1196-1202
TypeThrows(t) == [t EXCEPT !.pc = "threw"]

\* what the steps of typeBySelector leave alone
TypeFrame ==
  /\ UNCHANGED <<captureVars, resolverVars, scrollVars, outerVars, markerVars, clientVars>>
  /\ UNCHANGED <<sessionVars, initVars, pageVars, execVars, cl>>

\* typeBySelector(selector, text) up to waitForSelector       1130-1138
TypeCall(text) ==
  /\ typing.pc = "idle"
  /\ typing' = IF page = 0
             THEN TypeThrows([TyIdle EXCEPT !.text = text, !.startValue = field.value])
             ELSE [TyIdle EXCEPT !.pc = "wait_selector", !.text = text,
                                 !.startValue = field.value]
  /\ UNCHANGED field
  /\ TypeFrame

\* waitForSelector(selector, { state: 'visible' }) settles: the handle of
\* the element, or the timeout of 10 s                         1135-1142
TypeWaitSelector ==
  /\ typing.pc = "wait_selector"
  /\ typing' = IF field.attached /\ field.visible
             THEN [typing EXCEPT !.pc = "check"]
             ELSE TypeThrows(typing)
  /\ UNCHANGED field
  /\ TypeFrame

\* isVisible() and isEditable() settle; 'Element is not visible' and
\* 'Element is not editable' go to the outer catch; then focus() and the
\* 200 ms                                                      1145-1158
TypeCheck ==
  /\ typing.pc = "check"
  /\ typing' = IF field.attached /\ field.visible /\ field.editable
             THEN [typing EXCEPT !.pc = "fill", !.verified = TRUE]
             ELSE TypeThrows(typing)
  /\ UNCHANGED field
  /\ TypeFrame

\* `element.fill('')`: the value is cleared                          1162
Fill(v) == <<>>

\* fill('') settles: done on an element that is attached, visible and
\* editable, rejected otherwise (inner catch)                  1162, 1173
TypeFill ==
  /\ typing.pc = "fill"
  /\ IF field.attached /\ field.visible /\ field.editable
       THEN /\ field' = [field EXCEPT !.value = Fill(@)]
            /\ typing' = [typing EXCEPT !.pc = "type"]
       ELSE /\ UNCHANGED field
            /\ typing' = [typing EXCEPT !.pc = "fallback"]
  /\ TypeFrame

\* element.type(text, { delay: 100 }) enters the next character, or is
\* rejected because the element left the document               1163
TypeChar ==
  /\ typing.pc = "type"
  /\ IF field.attached
       THEN /\ field' = [field EXCEPT !.value = Append(@, typing.text[typing.typed + 1])]
            /\ typing' = [typing EXCEPT !.typed = @ + 1,
                                !.pc = IF typing.typed + 1 = Len(typing.text)
                                         THEN "enter" ELSE "type"]
       ELSE /\ UNCHANGED field
            /\ typing' = [typing EXCEPT !.pc = "fallback"]
  /\ TypeFrame

\* the Enter key in the element: a line break in a <textarea>, no change
\* of the value of an <input>
PressEnter(f) ==
  IF f.kind = "textarea" THEN [f EXCEPT !.value = Append(@, "\n")] ELSE f

\* the 1000 ms pass, element.press('Enter') settles, the 2000 ms pass;
\* 'Successfully typed text'                                   1166-1172
TypeEnter ==
  /\ typing.pc = "enter"
  /\ IF field.attached
       THEN /\ field' = PressEnter(field)
            /\ typing' = [typing EXCEPT !.pc = "returned"]
       ELSE /\ UNCHANGED field
            /\ typing' = [typing EXCEPT !.pc = "fallback"]
  /\ TypeFrame

\* the page.evaluate of the inner catch: `element.value = text` on the
\* element document.querySelector finds, nothing without one; the 2000 ms
\* pass; 'Successfully typed text'                             1180-1195
TypeFallback ==
  /\ typing.pc = "fallback"
  /\ field' = IF field.attached THEN [field EXCEPT !.value = typing.text] ELSE field
  /\ typing' = [typing EXCEPT !.pc = "returned"]
  /\ TypeFrame

TypeBySelectorSteps ==
  \/ \E text \in Texts_typed : TypeCall(text)
  \/ TypeWaitSelector
  \/ TypeCheck
  \/ TypeFill
  \/ TypeChar
  \/ TypeEnter
  \/ TypeFallback

\* the page takes the element out of its document
FieldDetach ==
  /\ field.attached
  /\ field' = [field EXCEPT !.attached = FALSE]
  /\ UNCHANGED typing
  /\ TypeFrame

\* the page makes the element read-only
FieldReadOnly ==
  /\ field.editable
  /\ field' = [field EXCEPT !.editable = FALSE]
  /\ UNCHANGED typing
  /\ TypeFrame

InitType ==
  /\ SessionStarts(TRUE)
  /\ InitNoCapture
  /\ InitNoResolver
  /\ InitNoScroll
  /\ field \in [kind : FieldKinds, attached : BOOLEAN, visible : BOOLEAN,
                editable : BOOLEAN, value : StartValues]
  /\ typing = TyIdle
  /\ InitOuter
  /\ InitNoMarker
  /\ InitNoClient

NextType ==
  \/ TypeBySelectorSteps
  \/ FieldDetach
  \/ FieldReadOnly

SpecType == InitType /\ [][NextType]_vars

\* C24 (order): typeBySelector changes the value of the element only after
\* the element was verified visible and editable; when the verification
\* fails the call throws and the value is what it was; and once the call
\* has changed the value, nothing of the value that was there is left in
\* it.
C24_VerifiedThenCleared ==
  /\ [][field'.value # field.value =>
          /\ typing.verified
          /\ \A i \in 1..Len(field'.value) : field'.value[i] \notin OldChars]_vars
  /\ [](typing.pc = "threw" /\ ~typing.verified => field.value = typing.startValue)

\* C24: the order above, and on success the value of the element is
\* exactly the given text.
C24_TypeSetsText ==
  /\ C24_VerifiedThenCleared
  /\ [](typing.pc = "returned" => field.value = typing.text)

\* ------------------------------------------------------------ termination
\* every primitive execute() awaits settles: it completes, fails or runs
\* into its timeout
SpecExecFair == SpecExec /\ WF_vars(Execute)

\* C25: every execute(action) that was called eventually returns, whatever
\* the action and whatever the page and the tabs do meanwhile: no step of
\* navigation, click, new-tab load handling, settle wait or capture waits
\* forever.
C25_ExecuteReturns == (ex.pc # "idle") ~> Returned

\* C25 witness: a Goto to the page that never reaches network idle has
\* returned: the network-idle waits of the first navigation attempt and of
\* the settle wait ran into their timeouts.
C25_Witness ==
  /\ Returned
  /\ ex.action.type = "goto"
  /\ ex.action.url = "site-polling"
  /\ result.success
  /\ result.currentUrl = "site-polling"

\* ============================================================ the oracle
\* getNextAction (agent.ts 303-320) and getNextStep (route.ts 104-118) ask
\* the configured provider and parse what it returns; the providers are
\* OpenAIProvider (openai-provider.ts 20-75) and OllamaProvider
\* (unnamed/part_005 56-144).
\*
\* A text is a sequence of tokens: "{" and "}", "m" for one well-formed
\* member of an object, "w" for a word of prose.

\* the longest answer of the model
MaxResp == 3

Tokens == {"{", "}", "m", "w"}

ModelTexts == UNION {[1..n -> Tokens] : n \in 0..MaxResp}

\* the arguments the model may pass to the agentResponse tool (none: <<>>)
ToolResults == {<<>>, <<"m">>}

Providers == {"openai", "ollama"}

\* JSON.parse: the text is an object literal whose members are well formed;
\* anything else throws. The value is the sequence of members.
JsonParse(text) ==
  IF /\ Len(text) >= 2
     /\ text[1] = "{"
     /\ text[Len(text)] = "}"
     /\ \A i \in 2..(Len(text) - 1) : text[i] \in {"m", "e"}
  THEN [ok |-> TRUE, value |-> SubSeq(text, 2, Len(text) - 1)]
  ELSE [ok |-> FALSE, value |-> <<>>]

\* JSON.stringify of an object
JsonStringify(value) == <<"{">> \o value \o <<"}">>

\* text.match(/\{[\s\S]*\}/): from the first "{" to the last "}" behind it,
\* <<>> for no match                                       part_005 129
JsonMatch(text) ==
  LET opens == {i \in 1..Len(text) : text[i] = "{"}
      first == CHOOSE i \in opens : \A j \in opens : i <= j
      closes == {i \in 1..Len(text) : text[i] = "}" /\ i > first}
      last == CHOOSE i \in closes : \A j \in closes : j <= i
  IN IF opens = {} THEN <<>>
     ELSE IF closes = {} THEN <<>>
     ELSE SubSeq(text, first, last)

\* { type: "error", description: "Failed to get structured response from
\* vision model" }                                         part_005 134-137
ErrorObject == <<"e">>

\* OllamaProvider.chatWithVision on the text of the model   part_005 124-138
VisionResponse(text) ==
  IF JsonParse(text).ok THEN JsonStringify(JsonParse(text).value)
  ELSE IF JsonMatch(text) # <<>> THEN JsonMatch(text)
  ELSE JsonStringify(ErrorObject)

\* OllamaProvider.chat: the tool result when the model called the tool,
\* the raw text otherwise                                  part_005 82-88
ChatResponse(text, tool) ==
  IF tool # <<>> THEN JsonStringify(tool) ELSE text

\* what the provider resolves with; OpenAIProvider returns the content of
\* the first choice as it is           openai-provider.ts 37, 68
ProviderResponse(o) ==
  IF o.provider = "openai" THEN o.text
  ELSE IF o.vision THEN VisionResponse(o.text)
  ELSE ChatResponse(o.text, o.tool)

OracleFrame ==
  /\ UNCHANGED <<captureVars, resolverVars, scrollVars, typeVars, rt, sw, markerVars, clientVars>>
  /\ UNCHANGED <<sessionVars, initVars, pageVars, execVars, cl>>

\* getNextAction / getNextStep up to the await of the provider; the model
\* answers with `text` (and `tool` where the request offers the tool)
\*                                                         agent.ts 303-306
OracleAsk(provider, vision, text, tool) ==
  /\ oracle.pc = "idle"
  /\ tool # <<>> => provider = "ollama" /\ ~vision
  /\ oracle' = [oracle EXCEPT !.pc = "asked", !.provider = provider,
                              !.vision = vision, !.text = text,
                              !.tool = tool]
  /\ OracleFrame

\* the provider resolves
ProviderReturns ==
  /\ oracle.pc = "asked"
  /\ oracle' = [oracle EXCEPT !.pc = "parse",
                              !.response = ProviderResponse(oracle)]
  /\ OracleFrame

\* the request fails: the provider rethrows and the caller does not catch
\*                                       part_005 140-143, agent.ts 304-306
ProviderThrows ==
  /\ oracle.pc = "asked"
  /\ oracle' = [oracle EXCEPT !.pc = "threw"]
  /\ OracleFrame

\* JSON.parse(response), returned or 'Failed to parse AI response as JSON'
\*                                                         agent.ts 310-319
OracleParse ==
  /\ oracle.pc = "parse"
  /\ LET r == JsonParse(oracle.response)
     IN oracle' = [oracle EXCEPT !.pc = IF r.ok THEN "returned" ELSE "threw",
                                 !.action = r.value]
  /\ OracleFrame

\* the caller takes the outcome
OracleConsume ==
  /\ oracle.pc \in {"returned", "threw"}
  /\ oracle' = OracleIdle
  /\ OracleFrame

GetNextAction ==
  \/ ProviderReturns
  \/ ProviderThrows
  \/ OracleParse
  \/ OracleConsume

InitOracle ==
  /\ SessionStarts(TRUE)
  /\ InitNoCapture
  /\ InitNoResolver
  /\ InitNoScroll
  /\ InitNoType
  /\ InitOuter
  /\ InitNoMarker
  /\ InitNoClient

NextOracle ==
  \/ \E provider \in Providers, vision \in BOOLEAN, text \in ModelTexts, tool \in ToolResults : OracleAsk(provider, vision, text, tool)
  \/ GetNextAction

SpecOracle == InitOracle /\ [][NextOracle]_vars

\* C26: a malformed or non-JSON answer of the model always surfaces as an
\* error to the caller of getNextAction / getNextStep: whenever the call
\* returns an action, the answer of the model (or the tool call it made) was
\* itself well-formed JSON and the action is its value; no layer repairs the
\* answer or puts a fabricated action in its place.
C26_MalformedSurfaces ==
  oracle.pc = "returned" =>
    IF oracle.tool # <<>> THEN oracle.action = oracle.tool
    ELSE /\ JsonParse(oracle.text).ok
         /\ oracle.action = JsonParse(oracle.text).value

\* ============================================================ the POST handler
\* POST (route.ts 344-455): one step per await of the handler. Every awaited
\* call either resolves or rejects (`ok`); a rejection inside the try block
\* goes to the catch block, a rejection inside the finally block leaves
\* the handler.

StepTypes == {"goto", "click", "type", "complete"}

RouteFrame ==
  /\ UNCHANGED <<captureVars, resolverVars, scrollVars, typeVars, oracle, sw, markerVars, clientVars>>
  /\ UNCHANGED <<sessionVars, initVars, pageVars, execVars, cl>>

\* the finally block, entered with the response the try or the catch block
\* returned: page.close() when page is set, else browser.close() when
\* browser is set, else the handler is over                route.ts 443-454
Finally(r) ==
  IF r.page THEN [r EXCEPT !.pc = "closePage"]
  ELSE IF r.browser THEN [r EXCEPT !.pc = "closeBrowser"]
  ELSE [r EXCEPT !.pc = "done", !.outcome = r.pending]

\* a return statement of the try block                     route.ts 409-414, 434
Return200(r) == Finally([r EXCEPT !.pending = "200"])

\* the catch block: NextResponse.json({error}, {status: 500})  route.ts 436-442
Catch(r) == Finally([r EXCEPT !.pending = "500", !.failed = TRUE])

\* an await of the try block settles
TryStep(r, ok, next) == IF ok THEN [r EXCEPT !.pc = next] ELSE Catch(r)

\* the handler is called and awaits req.json()             route.ts 344-350
PostCall(currentUrl) ==
  /\ rt.pc = "idle"
  /\ rt' = [RtIdle EXCEPT !.pc = "json", !.currentUrl = currentUrl]
  /\ RouteFrame

\* req.json() settles; puppeteer.launch is called          route.ts 350-366
PostJson(ok) ==
  /\ rt.pc = "json"
  /\ rt' = TryStep(rt, ok, "launch")
  /\ RouteFrame

\* puppeteer.launch settles                                route.ts 355-367
PostLaunch(ok) ==
  /\ rt.pc = "launch"
  /\ rt' = TryStep([rt EXCEPT !.browser = ok], ok, "newPage")
  /\ RouteFrame

\* browser.newPage() settles; setExtraHTTPHeaders is called  route.ts 367-376
PostNewPage(ok) ==
  /\ rt.pc = "newPage"
  /\ rt' = TryStep([rt EXCEPT !.page = ok], ok, "headers")
  /\ RouteFrame

\* setExtraHTTPHeaders settles                             route.ts 374-383
PostHeaders(ok) ==
  /\ rt.pc = "headers"
  /\ rt' = TryStep(rt, ok, IF rt.currentUrl THEN "goto" ELSE "nextStep")
  /\ RouteFrame

\* the first page.goto settles; its rejection is caught and the second
\* page.goto is called                                     route.ts 383-393
PostGoto(ok) ==
  /\ rt.pc = "goto"
  /\ rt' = [rt EXCEPT !.pc = IF ok THEN "shot" ELSE "gotoRetry"]
  /\ RouteFrame

\* the second page.goto settles                            route.ts 391-395
PostGotoRetry(ok) ==
  /\ rt.pc = "gotoRetry"
  /\ rt' = TryStep(rt, ok, "retryWait")
  /\ RouteFrame

\* the five seconds after the retry pass                   route.ts 395
PostRetryWait ==
  /\ rt.pc = "retryWait"
  /\ rt' = [rt EXCEPT !.pc = "shot"]
  /\ RouteFrame

\* takeScreenshot settles                                  route.ts 397-398
PostShot(ok) ==
  /\ rt.pc = "shot"
  /\ rt' = TryStep(rt, ok, "nextStep")
  /\ RouteFrame

\* getNextStep settles: a 'complete' step is answered at once, any other
\* step goes to executeStep                                route.ts 402-419
PostNextStep(ok, step) ==
  /\ rt.pc = "nextStep"
  /\ rt' = IF ~ok THEN Catch(rt)
           ELSE IF step = "complete" THEN Return200([rt EXCEPT !.step = step])
           ELSE [rt EXCEPT !.pc = "executeStep", !.step = step]
  /\ RouteFrame

\* executeStep settles                                     route.ts 419-434
PostExecuteStep(ok) ==
  /\ rt.pc = "executeStep"
  /\ rt' = IF ok THEN Return200(rt) ELSE Catch(rt)
  /\ RouteFrame

\* what a rejected await of the finally block does: the exception leaves
\* the handler, the pending response is dropped
FinallyThrows(r, next) == [r EXCEPT !.pc = "done", !.outcome = "rejected"]

\* page.close() settles                                    route.ts 445-448
PostClosePage(ok) ==
  /\ rt.pc = "closePage"
  /\ LET r == [rt EXCEPT !.pageClose = IF ok THEN "closed" ELSE "failed"]
         next == IF r.browser THEN [r EXCEPT !.pc = "closeBrowser"]
                 ELSE [r EXCEPT !.pc = "done", !.outcome = r.pending]
     IN rt' = IF ok THEN next ELSE FinallyThrows(r, next)
  /\ RouteFrame

\* browser.close() settles                                 route.ts 449-453
PostCloseBrowser(ok) ==
  /\ rt.pc = "closeBrowser"
  /\ LET r == [rt EXCEPT !.browserClose = IF ok THEN "closed" ELSE "failed"]
         next == [r EXCEPT !.pc = "done", !.outcome = r.pending]
     IN rt' = IF ok THEN next ELSE FinallyThrows(r, next)
  /\ RouteFrame

\* the framework takes the outcome of the request
PostConsume ==
  /\ rt.pc = "done"
  /\ rt' = RtIdle
  /\ RouteFrame

POST ==
  \/ \E ok \in BOOLEAN : PostJson(ok)
  \/ \E ok \in BOOLEAN : PostLaunch(ok)
  \/ \E ok \in BOOLEAN : PostNewPage(ok)
  \/ \E ok \in BOOLEAN : PostHeaders(ok)
  \/ \E ok \in BOOLEAN : PostGoto(ok)
  \/ \E ok \in BOOLEAN : PostGotoRetry(ok)
  \/ PostRetryWait
  \/ \E ok \in BOOLEAN : PostShot(ok)
  \/ \E ok \in BOOLEAN, step \in StepTypes : PostNextStep(ok, step)
  \/ \E ok \in BOOLEAN : PostExecuteStep(ok)
  \/ \E ok \in BOOLEAN : PostClosePage(ok)
  \/ \E ok \in BOOLEAN : PostCloseBrowser(ok)
  \/ PostConsume

NextRoute ==
  \/ \E currentUrl \in BOOLEAN : PostCall(currentUrl)
  \/ POST

SpecRoute == InitOracle /\ [][NextRoute]_vars

\* C27: on every path through the POST handler (step executed, oracle
\* returned complete, or any error), when the handler finishes the close of
\* the page and the close of the browser it created have both been
\* attempted, a failed close of the page does not keep the browser from
\* being closed, and after a failure the handler answers with status 500
\* and an {error} body.
C27_CleanupAlwaysAttempted ==
  rt.pc = "done" =>
    /\ rt.page => rt.pageClose # "none"
    /\ rt.browser => rt.browserClose # "none"
    /\ rt.failed => rt.outcome = "500"

\* ============================================================ switchToPage
\* PlaywrightService.switchToPage (dom-service.ts 966-976) among the tab
\* events. The predicate is given by the set of tabs it accepts; called on a
\* tab that has closed meanwhile it may also throw.

SwitchFrame ==
  /\ UNCHANGED <<initVars, pageVars, execVars, cl>>
  /\ UNCHANGED <<captureVars, resolverVars, scrollVars, typeVars, oracle, rt,
                 markerVars, clientVars>>

\* the for-of at position i of the array it walks: predicate(page) is
\* called and awaited, or the loop is over and the call returns false
\*                                                  dom-service.ts 968-975
SwitchLoop(s, i) ==
  IF i <= Len(s.arr)
    THEN [s EXCEPT !.pc = "predicate", !.idx = i, !.cur = s.arr[i]]
    ELSE [s EXCEPT !.pc = "returned", !.idx = 0, !.cur = 0, !.ret = FALSE]

\* switchToPage(predicate) up to its first await           966-969
SwitchCall(pred) ==
  /\ sw.pc = "idle"
  /\ sw' = SwitchLoop([SwIdle EXCEPT !.pred = pred, !.arr = pages,
                                     !.same = TRUE], 1)
  /\ UNCHANGED sessionVars
  /\ SwitchFrame

\* the predicate resolves: on true the tab becomes this.page and the call
\* returns true, on false the loop goes on                 969-973
SwitchResume ==
  /\ sw.pc = "predicate"
  /\ IF sw.cur \in sw.pred
       THEN /\ page' = sw.cur
            /\ sw' = [sw EXCEPT !.pc = "returned", !.ret = TRUE]
       ELSE /\ page' = page
            /\ sw' = SwitchLoop(sw, sw.idx + 1)
  /\ UNCHANGED <<browser, context, pages, launched, newPages, ctxHandler,
                 tabCtx, tabState, handlerWait, closeHandler>>
  /\ SwitchFrame

\* the predicate is rejected on a tab that has closed: so is switchToPage
SwitchThrows ==
  /\ sw.pc = "predicate"
  /\ ~IsOpen(sw.cur)
  /\ sw' = [sw EXCEPT !.pc = "threw"]
  /\ UNCHANGED sessionVars
  /\ SwitchFrame

\* the caller takes the outcome
SwitchConsume ==
  /\ sw.pc \in {"returned", "threw"}
  /\ sw' = SwIdle
  /\ UNCHANGED sessionVars
  /\ SwitchFrame

SwitchToPage ==
  \/ SwitchResume
  \/ SwitchThrows
  \/ SwitchConsume

\* the tab events while a switchToPage may be walking this.pages: the
\* 'page' handler pushes onto the array object (908-910), the close
\* handler replaces it (921)
SwitchTabOpen(o) ==
  /\ TabOpen(o)
  /\ sw' = IF sw.same /\ ctxHandler[tabCtx[o]]
             THEN [sw EXCEPT !.arr = Append(@, NextTab)] ELSE sw
  /\ UNCHANGED <<initVars, pageVars, execVars>>
  /\ UNCHANGED <<captureVars, resolverVars, scrollVars, typeVars, oracle, rt,
                 markerVars, clientVars>>

SwitchTabLoaded(t) ==
  /\ TabLoaded(t)
  /\ UNCHANGED <<initVars, pageVars, execVars, libVars>>

SwitchTabClose(t) ==
  /\ TabClose(t)
  /\ sw' = IF closeHandler[t] THEN [sw EXCEPT !.same = FALSE] ELSE sw
  /\ UNCHANGED <<initVars, pageVars, execVars>>
  /\ UNCHANGED <<captureVars, resolverVars, scrollVars, typeVars, oracle, rt,
                 markerVars, clientVars>>

NextSwitch ==
  \/ \E pred \in SUBSET Tabs : SwitchCall(pred)
  \/ SwitchToPage
  \/ \E t \in Tabs : SwitchTabOpen(t)
  \/ \E t \in Tabs : SwitchTabLoaded(t)
  \/ \E t \in Tabs : SwitchTabClose(t)

SpecSwitch == InitExec /\ [][NextSwitch]_vars

\* this step is the 'page' handler making tab t the active one (916), or
\* the close handler of the active tab falling back (922-925)
TabHandlerWrites ==
  \/ \E t \in Tabs : handlerWait[t] /\ ~handlerWait'[t] /\ IsOpen(t) /\ page' = t
  \/ page \in Tabs /\ closeHandler[page] /\ tabState'[page] = "closed"

\* C28: single-writer discipline: after initialize and before cleanup, the
\* active-tab pointer (this.page) changes only in a step of the Session's
\* tab-event handlers; no other Session method and no operation of the
\* other components changes which tab is active.
C28_SingleWriter == [][page' # page => TabHandlerWrites]_vars

\* ============================================================ the marker
\* DOMService.clickElement (dom-service.ts 791-880) and DOMService.cleanup
\* (777-789) on a scrollable page, among the captures. No page event
\* happens here, so the awaits of one call that nothing can interleave with
\* are taken in one step.

\* the clickElement calls of one run
MaxClickCalls == 2

MarkerFrame ==
  /\ UNCHANGED <<doc, snaps, mutated, resolverVars, sc, typeVars, outerVars,
                 clientVars>>
  /\ UNCHANGED <<sessionVars, initVars, pageVars, cl, domService, ex, result,
                 engine>>

\* getPageState(highlightElements) called by the engine    406-413, 415-582
MarkerCapture(highlightElements) ==
  /\ ds.pc = "idle"
  /\ page # 0
  /\ CaptureAtScroll
  /\ highlightOverlayEnabled' = (highlightOverlayEnabled \/ highlightElements)
  /\ UNCHANGED <<scrollY, stableIds, ds>>
  /\ MarkerFrame

\* document.querySelector('[data-stable-id="uid"]'), 0: null
QueryStableId(ids, uid) ==
  LET s == {p \in 1..Len(ids) : ids[p] = uid}
  IN IF s = {} THEN 0 ELSE CHOOSE p \in s : \A q \in s : p <= q

\* clickElement(index) up to the stamping evaluate: getElementByIndex
\* captures with highlightElements false; without the element false is
\* returned, else the base selector is built               791-802
ClickElementCall(index) ==
  /\ ds.pc = "idle"
  /\ ds.calls < MaxClickCalls
  /\ page # 0
  /\ CaptureAtScroll
  /\ LET r == Rendered(doc, scrollY)
         el == FindIndex(prioritizedElements(r), index)
         d == [ds EXCEPT !.op = "click", !.index = index, !.el = el,
                         !.calls = @ + 1, !.uid = ds.calls + 1]
     IN IF el = 0
          THEN ds' = [d EXCEPT !.pc = "returned", !.ret = "false"]
          ELSE ds' = [d EXCEPT !.pc = "stamp",
                               !.base = StableSelector(AttrsOf(doc[el]), cssGlobal).value,
                               !.boxY = r[el].top]
  /\ UNCHANGED <<scrollY, stableIds, highlightOverlayEnabled>>
  /\ MarkerFrame

\* the stamping evaluate: the first element the base selector finds gets
\* data-stable-id; a selector the browser rejects makes the evaluate, and
\* with it clickElement, throw                             805-810
ClickElementStamp ==
  /\ ds.pc = "stamp"
  /\ IF ~SelectorValid(ds.base)
       THEN /\ ds' = [ds EXCEPT !.pc = "threw"]
            /\ UNCHANGED stableIds
       ELSE LET el == QuerySelector(doc, ds.base)
            IN /\ stableIds' = IF el = 0 THEN stableIds
                               ELSE [stableIds EXCEPT ![el] = ds.uid]
               /\ ds' = [ds EXCEPT !.pc = "scroll"]
  /\ UNCHANGED <<scrollY, marks, overlays, highlightOverlayEnabled>>
  /\ MarkerFrame

\* scrollToElement(index, stableSelector, boundingBox): the marked element
\* is scrolled to the centre, to the fallback box when it is not in the
\* window then, and the call returns whether the selector finds an element
\*                                                    815-820, 679-747
ClickElementScroll ==
  /\ ds.pc = "scroll"
  /\ LET el == QueryStableId(stableIds, ds.uid)
         y1 == IF el = 0 THEN scrollY ELSE ScrollIntoView(doc[el])
         inWindow == /\ el # 0
                     /\ isInViewport(Rendered(doc, y1)[el])
                     /\ doc[el].width > 0 /\ doc[el].height > 0
     IN /\ scrollY' = IF inWindow THEN y1 ELSE ScrollTo(ds.boxY)
        /\ ds' = IF el = 0
                   THEN [ds EXCEPT !.pc = "returned", !.ret = "false"]
                   ELSE [ds EXCEPT !.pc = "click"]
  /\ UNCHANGED <<stableIds, marks, overlays, highlightOverlayEnabled>>
  /\ MarkerFrame

\* page.click on the marked element succeeds; or it fails and the
\* evaluate of the catch block clicks it, or is rejected    823-879
ClickElementClick(how) ==
  /\ ds.pc = "click"
  /\ ds' = [ds EXCEPT !.pc = "returned",
                      !.ret = IF how = "none" THEN "false" ELSE "true"]
  /\ UNCHANGED <<scrollY, stableIds, marks, overlays, highlightOverlayEnabled>>
  /\ MarkerFrame

\* DOMService.cleanup(): the overlays and the data-element-index
\* attributes are removed when highlightOverlayEnabled is set  777-789
DomCleanup ==
  /\ ds.pc = "idle"
  /\ page # 0
  /\ IF highlightOverlayEnabled
       THEN /\ overlays' = RemoveHighlights(overlays)
            /\ marks' = RemoveIndices(marks)
            /\ highlightOverlayEnabled' = FALSE
       ELSE UNCHANGED <<overlays, marks, highlightOverlayEnabled>>
  /\ ds' = [ds EXCEPT !.pc = "returned", !.op = "cleanup", !.ret = "none"]
  /\ UNCHANGED <<scrollY, stableIds>>
  /\ MarkerFrame

\* the caller takes the outcome
MarkerConsume ==
  /\ ds.pc \in {"returned", "threw"}
  /\ ds' = [DsIdle EXCEPT !.calls = ds.calls]
  /\ UNCHANGED <<scrollY, stableIds, marks, overlays, highlightOverlayEnabled>>
  /\ MarkerFrame

ClickElement ==
  \/ ClickElementStamp
  \/ ClickElementScroll
  \/ \E how \in {"native", "fallback", "none"} : ClickElementClick(how)

InitMarker ==
  /\ SessionStarts(TRUE)
  /\ doc \in ScrollDocuments
  /\ marks = [p \in 1..Len(doc) |-> 0]
  /\ overlays = <<>>
  /\ snaps = <<>>
  /\ mutated = FALSE
  /\ InitNoResolver
  /\ InitNoScroll
  /\ InitNoType
  /\ InitOuter
  /\ stableIds = [p \in 1..Len(doc) |-> 0]
  /\ ds = DsIdle
  /\ InitNoClient

NextMarker ==
  \/ \E highlightElements \in BOOLEAN : MarkerCapture(highlightElements)
  \/ \E index \in 1..MaxBody : ClickElementCall(index)
  \/ ClickElement
  \/ DomCleanup
  \/ MarkerConsume

SpecMarker == InitMarker /\ [][NextMarker]_vars

\* the page carries no overlay node, no data-element-index attribute and
\* no data-stable-id attribute
PageClean ==
  /\ overlays = <<>>
  /\ \A p \in 1..Len(doc) : marks[p] = 0 /\ stableIds[p] = 0

\* C29: once DOMService.cleanup() has completed on a live page, the page
\* holds no overlay node, no data-element-index attribute and no
\* data-stable-id attribute, whatever captures and clickElement calls ran
\* before; and the data-stable-id marker does not outlive the clickElement
\* call that stamped it.
C29_CleanupLeavesNoTrace ==
  /\ (ds.pc = "returned" /\ ds.op = "cleanup") => PageClean
  /\ (ds.pc \in {"returned", "threw"} /\ ds.op = "click") =>
       \A p \in 1..Len(doc) : stableIds[p] = 0

\* --------------------------------------------------- one click per Click
\* C31: one Click action delivers at most one click to the page: the
\* synthetic click is dispatched only when the native click itself failed,
\* a failed wait after a successful native click causes no second click,
\* and no click of the action goes to another tab than its first one.
C31_AtMostOneClick ==
  ex.action.type = "click" =>
    /\ Len(clicks) <= 1
    /\ SyntheticClicks # {} => NativeClicks = {}
    /\ \A i, j \in 1..Len(clicks) : clicks[i][1] = clicks[j][1]

\* ------------------------------------------------ one tab per ActionResult
\* C32: in every ActionResult the element snapshot, the currentUrl and the
\* screenshot describe the same tab, and that tab is the Session's active
\* tab at the time the result is returned, also when the active tab changed
\* since the ActionExecutor created its DOMService.
C32_ResultOfOneTab ==
  (Returned /\ result.success) =>
    /\ result.screenshot.tab = page
    /\ result.pageState.tab = page
    /\ result.currentUrl = url[page]

\* ------------------------------------------------------ optional overlays
\* C33: a capture made with highlightElements false inserts no overlay node
\* into the page: overlay nodes are in the body only once a capture with
\* highlightElements true was made (which is what sets
\* highlightOverlayEnabled).
C33_OverlaysOnlyOnHighlight == overlays # <<>> => highlightOverlayEnabled

\* ------------------------------------------------- two tabs in succession
\* C34: when the context has opened tabs in close succession and the
\* new-tab handler has finished for each of them (no tab has closed and no
\* cleanup has run), the active tab is the one that was opened last,
\* whatever the order in which the tabs reached DOM-content-loaded.
C34_LastOpenedIsActive ==
  (/\ cl = ClIdle
   /\ NumTabs >= 3
   /\ \A t \in Tabs : tabState[t] # "closed"
   /\ \A t \in Tabs : IsOpen(t) => closeHandler[t] /\ ~handlerWait[t])
    => page = NumTabs

\* --------------------------------------------------------- the tab list
\* no initialize() and no cleanup() is in progress
Quiescent ==
  /\ \A c \in Callers : initPc[c] \in {"idle", "returned", "threw"}
  /\ cl.pc \in {"idle", "returned"}

\* C35: after any sequence of initialize, tab-open events, tab-close events
\* and cleanup, the tracked tab list this.pages holds no tab more than once
\* and holds no closed tab.
C35_PagesDistinctAndOpen ==
  Quiescent =>
    /\ \A i, j \in 1..Len(pages) : pages[i] = pages[j] => i = j
    /\ \A i \in 1..Len(pages) : IsOpen(pages[i])

\* ------------------------------------------------ actions of any type
\* getNextAction returns JSON.parse(response) with no check of its shape
\* (agent.ts 310-313), so execute() can be handed an object whose type is
\* none of the Action union's, such as the error object OllamaProvider
\* makes up (unnamed/part_005 134-137)
ErrorAction == [type |-> "error", index |-> 0, url |-> ""]

ParsedActions == Actions \cup {ErrorAction}

NextExecParsed ==
  \/ \E a \in ParsedActions : ExecStart(a)
  \/ Execute
  \/ PageEvent

SpecExecParsed == InitExec /\ [][NextExecParsed]_vars

\* C36: execute returns success: true only when the action's type is one of
\* goto, click, type, scroll and complete; an action object of any other
\* type yields success: false.
C36_UnknownTypeFails ==
  (Returned /\ result.success) =>
    ex.action.type \in {"goto", "click", "type", "scroll", "complete"}


\* ------------------------------------------------ executeStep: a click step
\* src/app/api/agent/route.ts 190-342. An element of the page the route
\* drives is described by what the two lookups of the click branch read:
\*   sel        it matches step.selector
\*   text       how its trimmed textContent relates to step.elementText:
\*              "exact" (equal), "partial" (contains it) or "none"
\*   clickable  it matches 'a, button, [role="button"]'
\*   shown      its computed display is not 'none'
\*   sized      its bounding rectangle has a width and a height
\*   nav        a click on it loads another document
\* The five elements below are the kinds the lookups tell apart.
RouteLink ==
  [sel |-> TRUE, text |-> "exact", clickable |-> TRUE, shown |-> TRUE,
   sized |-> TRUE, nav |-> TRUE]

RouteButton ==
  [sel |-> TRUE, text |-> "exact", clickable |-> TRUE, shown |-> TRUE,
   sized |-> TRUE, nav |-> FALSE]

RouteIcon ==
  [sel |-> TRUE, text |-> "none", clickable |-> TRUE, shown |-> TRUE,
   sized |-> TRUE, nav |-> FALSE]

RouteSimilar ==
  [sel |-> FALSE, text |-> "partial", clickable |-> TRUE, shown |-> TRUE,
   sized |-> TRUE, nav |-> FALSE]

RouteCollapsed ==
  [sel |-> TRUE, text |-> "exact", clickable |-> TRUE, shown |-> TRUE,
   sized |-> FALSE, nav |-> FALSE]

RouteElems == {RouteLink, RouteButton, RouteIcon, RouteSimilar, RouteCollapsed}

\* the longest document of the route's page
MaxRouteDoc == 2

RouteDocs == UNION {[1..n -> RouteElems] : n \in 0..MaxRouteDoc}

StepFrame ==
  /\ UNCHANGED <<sessionVars, initVars, pageVars, execVars, cl>>
  /\ UNCHANGED <<captureVars, resolverVars, scrollVars, typeVars, outerVars,
                 markerVars, hook>>

\* first position of d whose element satisfies P, 0 when there is none
\* (querySelector, Array.prototype.find)
RouteFind(d, P(_)) ==
  IF \E i \in 1..Len(d) : P(d[i])
    THEN CHOOSE i \in 1..Len(d) : P(d[i]) /\ \A j \in 1..(i - 1) : ~P(d[j])
    ELSE 0

\* the document after a click on e: the same one, or, when the click
\* navigates, whatever the next page holds
AfterClick(e, d) == IF e.nav THEN RouteDocs ELSE {d}

\* executeStep(page, {type: 'click', elementText, selector?})     190-222
StepCall(d, withSelector) ==
  /\ stp.pc = "idle"
  /\ stp' = [StpIdle EXCEPT !.pc = "scan", !.dom = d,
                            !.selector = withSelector]
  /\ StepFrame

\* the evaluate that lists the clickable elements for the log     227-239
StepScan ==
  /\ stp.pc = "scan"
  /\ stp' = [stp EXCEPT !.pc = IF stp.selector THEN "selector" ELSE "text"]
  /\ StepFrame

\* if (step.selector): waitForSelector(selector, {visible: true}) waits for
\* the first match of the selector to be visible and click() clicks it; a
\* timeout is caught and logged. Both ways go on to the text search. 242-258
StepSelector ==
  /\ stp.pc = "selector"
  /\ LET IsSel(e) == e.sel
         f == RouteFind(stp.dom, IsSel)
     IN IF f # 0 /\ stp.dom[f].shown /\ stp.dom[f].sized
          THEN \E d \in AfterClick(stp.dom[f], stp.dom) :
                 stp' = [stp EXCEPT
                           !.pc = "text", !.dom = d,
                           !.clicks = Append(@, <<stp.dom[f], "selector">>)]
          ELSE stp' = [stp EXCEPT !.pc = "text"]
  /\ StepFrame

\* the text search, run whether or not the selector clicked: the first
\* displayed clickable element whose text is elementText, else the first
\* that contains it; it is clicked when it has a size, and the step throws
\* when nothing was clicked                                       261-318
StepText ==
  /\ stp.pc = "text"
  /\ LET Exact(e) == e.clickable /\ e.text = "exact" /\ e.shown
         Partial(e) == e.clickable /\ e.text \in {"exact", "partial"} /\ e.shown
         x == RouteFind(stp.dom, Exact)
         f == IF x # 0 THEN x ELSE RouteFind(stp.dom, Partial)
     IN IF f # 0 /\ stp.dom[f].sized
          THEN \E d \in AfterClick(stp.dom[f], stp.dom) :
                 stp' = [stp EXCEPT
                           !.pc = "networkidle", !.dom = d,
                           !.clicks = Append(@, <<stp.dom[f], "text">>)]
          ELSE stp' = [stp EXCEPT !.pc = "threw", !.error = "notfound"]
  /\ StepFrame

\* waitForNetworkIdle({timeout: 10000}).catch(log)                 322
StepNetworkIdle ==
  /\ stp.pc = "networkidle"
  /\ stp' = [stp EXCEPT !.pc = "spa"]
  /\ StepFrame

\* the 2000 ms wait and the read of location.pathname             328-333
StepSpaWait ==
  /\ stp.pc = "spa"
  /\ stp' = [stp EXCEPT !.pc = "shot"]
  /\ StepFrame

\* takeScreenshot(page): waitForPageLoad, which never throws, then
\* page.screenshot, which may                            157-188, 338-341
StepShot ==
  /\ stp.pc = "shot"
  /\ \/ stp' = [stp EXCEPT !.pc = "returned", !.settled = TRUE, !.shot = TRUE]
     \/ stp' = [stp EXCEPT !.pc = "threw", !.settled = TRUE,
                           !.error = "screenshot"]
  /\ StepFrame

\* POST takes the result or the error                             419
StepConsume ==
  /\ stp.pc \in {"returned", "threw"}
  /\ stp' = StpIdle
  /\ StepFrame

ExecuteStep ==
  \/ StepScan
  \/ StepSelector
  \/ StepText
  \/ StepNetworkIdle
  \/ StepSpaWait
  \/ StepShot
  \/ StepConsume

NextStep ==
  \/ \E d \in RouteDocs, withSelector \in BOOLEAN : StepCall(d, withSelector)
  \/ ExecuteStep

SpecStep == InitOracle /\ [][NextStep]_vars

\* C37: a click step of executeStep that succeeds clicked one element, once;
\* and a step whose selector lookup found and clicked the element is not
\* failed for the only reason that the text search then found nothing.
C37_OneClickPerStep ==
  /\ stp.pc = "returned" => Len(stp.clicks) = 1
  /\ (stp.pc = "threw" /\ stp.error = "notfound") => stp.clicks = <<>>


\* ------------------------------------------------ the useAgent hook
\* src/unnamed/part_001. The hook's state is the AgentState of useState;
\* goal and currentUrl are 0 for null, actions is the length of the list,
\* error is "null" or the message. Each request to /api/agent that has
\* not been answered is a flight: the currentState its handler closed over.
MaxFlights == 2

\* the longest list of actions a mission collects
MaxHookActions == 2

\* the goals a user submits
Goals == {1, 2}

\* response.currentUrl
HookUrls == {1, 2}

HookFrame ==
  /\ UNCHANGED <<sessionVars, initVars, pageVars, execVars, cl>>
  /\ UNCHANGED <<captureVars, resolverVars, scrollVars, typeVars, outerVars,
                 markerVars, stp>>

\* s without its i-th element
DropFlight(s, i) == SubSeq(s, 1, i - 1) \o SubSeq(s, i + 1, Len(s))

\* startMission(goal): setState(initialState), then executeAction(goal,
\* initialState) is awaited                                       136-158
StartMission(goal) ==
  /\ Len(hook.flights) < MaxFlights
  /\ LET initialState == [InitialAgentState EXCEPT !.goal = goal,
                                                   !.isProcessing = TRUE]
     IN hook' = [state |-> initialState,
                 flights |-> Append(hook.flights, initialState),
                 reset |-> FALSE]
  /\ HookFrame

\* reset(): setState of the initial state and nothing else        169-180
Reset ==
  /\ hook' = [hook EXCEPT !.state = InitialAgentState, !.reset = TRUE]
  /\ HookFrame

\* setState(prev => ({...prev, isProcessing: false, error}))
\*                                              69-73, 128-132, 161-165
Failed(prev, message) ==
  [prev EXCEPT !.isProcessing = FALSE, !.error = message]

\* the fetch of flight i rejects or answers with a status that is not ok:
\* executeAction throws and the catch of its caller sets the error
\*                                              53-56, 126-133, 159-166
FetchFails(i) ==
  /\ i \in 1..Len(hook.flights)
  /\ hook' = [hook EXCEPT !.state = Failed(@, "Failed to execute action"),
                          !.flights = DropFlight(@, i)]
  /\ HookFrame

\* handleActionResponse(response, currentState) with response.error 68-75
RespondError(i) ==
  /\ i \in 1..Len(hook.flights)
  /\ hook' = [hook EXCEPT !.state = Failed(@, "response.error"),
                          !.flights = DropFlight(@, i)]
  /\ HookFrame

\* ... with response.isComplete or a complete action              78-90
RespondComplete(i, u) ==
  /\ i \in 1..Len(hook.flights)
  /\ hook.state.actions < MaxHookActions
  /\ hook' = [hook EXCEPT
                !.state = [@ EXCEPT !.isProcessing = FALSE,
                                    !.isComplete = TRUE,
                                    !.currentUrl = u,
                                    !.actions = @ + 1],
                !.flights = DropFlight(@, i)]
  /\ HookFrame

\* ... with a next action: newState is built from the currentState the
\* handler was given, set as the state, and sent with the next request
\*                                                              109-125
RespondNext(i, u) ==
  /\ i \in 1..Len(hook.flights)
  /\ hook.flights[i].actions < MaxHookActions
  /\ LET currentState == hook.flights[i]
         newState == [currentState EXCEPT !.actions = @ + 1,
                                          !.currentUrl = u,
                                          !.error = "null",
                                          !.isProcessing = TRUE]
     IN hook' = [hook EXCEPT
                   !.state = newState,
                   !.flights = Append(DropFlight(@, i), newState)]
  /\ HookFrame

HandleActionResponse ==
  \E i \in 1..MaxFlights :
    \/ FetchFails(i)
    \/ RespondError(i)
    \/ \E u \in HookUrls : RespondComplete(i, u)
    \/ \E u \in HookUrls : RespondNext(i, u)

NextHook ==
  \/ \E goal \in Goals : StartMission(goal)
  \/ Reset
  \/ HandleActionResponse

SpecHook == InitOracle /\ [][NextHook]_vars

\* C38: from reset() until the next startMission the hook's state is the
\* initial state, whatever answers arrive in between, and no answer to a
\* request of the abandoned mission leads to a further request.
C38_ResetIsFinal ==
  [][(hook.reset /\ hook'.reset) =>
       /\ hook'.state = InitialAgentState
       /\ Len(hook'.flights) <= Len(hook.flights)
       /\ \A i \in 1..Len(hook'.flights) :
            \E j \in 1..Len(hook.flights) : hook'.flights[i] = hook.flights[j]]_vars

\* ------------------------------------------------ settle before capture
\* C39: a result of execute that carries a screenshot, on the success path
\* or on the failure path, was made after the settle wait of that call
\* (waitForLoadState: network idle or its timeout, then 1000 ms) returned.
C39_SettleBeforeShot ==
  (Returned /\ result.screenshot # NoShot) => ex.settled

====
